---- MODULE Spec2Model ----
(***************************************************************************)
(* Model of the collection streaming pipeline of corso:                    *)
(*   - groups prefetchCollection / lazyFetchCollection (streamItems),      *)
(*   - drive Collection (newColl, Add, Remove, SetFullPath, streamItems,   *)
(*     streamDriveItem, reportAsCompleted),                                *)
(*   - the legacy sharepoint Collection (Items, finishPopulation).         *)
(* goroutines are modelled as processes with a program counter; buffered   *)
(* Go channels as bounded sequences with a closed flag; a send on or a     *)
(* close of a closed channel panics and stops the whole program.           *)
(***************************************************************************)
EXTENDS Integers, Sequences, FiniteSets, Bags, TLC

\* ---------------------------------------------------------------- bounds
MaxItems == 2
MaxParallelism == 2
MaxItemsCalls == 2
StreamCap == 1
MaxPaths == 2
MaxVer == 2
TwiceItems == 1
BuildItems == 2
MaxColls == 2
MaxRecs == 1
MaxDownloads == 3
MaxDepth == 2
MaxPermIDs == 3
MaxMetaPerms == 2
MaxLinkIDs == 1
MaxDirectPerms == 6
MaxWalk == 2
MaxMetaColls == 2
MaxMetaFiles == 2
MaxContainers == 1
MaxDirectRemoved == 1
MaxDirectLinks == 3
MaxRemovedLinks == 1

CollIds == 1..MaxColls
Levels == 1..MaxDepth
PermIDs == 1..MaxPermIDs
LinkIDs == 1..MaxLinkIDs

ItemIDs == 1..MaxItems
Runs == 1..MaxItemsCalls
Nil == 0
Paths == 1..MaxPaths

Kinds == {"prefetch", "lazy", "drive", "legacy"}
Groups == {"prefetch", "lazy"}

\* a per-item goroutine is named by the streamItems run that spawned it,
\* the loop that spawned it and the item id
TaskIds == Runs \X {"rem", "add"} \X ItemIDs

VARIABLES
    kind,           \* which collection implementation this instance is
    added,          \* groups: col.added (item ids)
    removed,        \* groups: col.removed (item ids)
    driveItems,     \* drive: oc.driveItems, id -> item ([file, ver])
    jobs,           \* legacy sharepoint: sc.jobs
    parallelism,    \* Parallelism.ItemFetch / graph.Parallelism().Item()
    folderPath,     \* drive: oc.folderPath
    prevPath,       \* drive: oc.prevPath
    state,          \* drive: oc.state
    ret,            \* the last Add / Remove / SetFullPath call and its result
    itemsCalls,     \* number of Items() calls made by the consumer
    runPc,          \* position of each streamItems goroutine
    remLeft,        \* per run: removed ids the range loop has yet to visit
    addLeft,        \* per run: added ids / drive items yet to visit
    cur,            \* per run: item the loop is blocked on (semaphore send)
    sem,            \* per run: tokens held in semaphoreCh
    wg,             \* per run: sync.WaitGroup counter
    semClosed,      \* per run: semaphoreCh closed
    progClosed,     \* per run: progressMessage closed
    streamedItems,  \* per run: groups streamedItems counter
    stats,          \* per run: drive driveStats (itemsFound, itemsRead)
    taskPc,         \* position of each per-item goroutine
    stream,         \* col.stream / oc.data / sc.data buffer
    streamClosed,   \* the output channel has been closed
    received,       \* bag of the records the consumer has taken from the channel
    consumerDone,   \* the consumer has seen the channel closed and drained
    failure,        \* fault bus: Failure() != nil
    recoverable,    \* fault bus: recoverable errors, as [id, err]
    skipped,        \* fault bus: skip records
    statusCalls,    \* statuses handed to statusUpdater, in call order
    itemFetches,    \* per id: getItem calls (groups) / content downloads (drive)
    metaFetches,    \* per id: downloadItemMeta calls (drive)
    dataRequested,  \* ids whose lazy item's GetData was invoked
    finished,       \* legacy: finishPopulation has been called
    panicked,       \* a goroutine panicked: the process is gone
    colls,          \* controller: the collections the service produced
    ctrlPc,         \* controller: position of ProduceBackupCollections
    next,           \* controller: index of the range loop over colls
    awaiting,       \* controller: the awaiting-completion counter
    counted,        \* per collection: increments made on its behalf
    cItems,         \* per collection: Items() calls made by the consumer
    cPc,            \* per collection: position of its streamItems goroutine
    cLeft,          \* per collection: records still to be sent
    cBuf,           \* per collection: records held in its channel
    cStatus,        \* per collection: status callback invocations
    dlPc,           \* downloadContent: position in the current call
    dlCache,        \* downloadContent: the url cache handed in is not nil
    dlLog,          \* downloadContent: requests of the current call, in order
    dlResult,       \* downloadContent: what the last call returned
    dlCalls,        \* downloadContent calls made so far
    cacheMiss,      \* counter count.URLCacheMiss
    metas,          \* restore: the backed-up Metadata of each level of a path
    parentDirToMeta,    \* caches.ParentDirToMeta: levels whose Metadata is cached
    level,          \* restore: the level of the path restored next
    availableEntities,  \* caches.AvailableEntities
    failFast,       \* fault bus: a recoverable error also fails the bus
    oldPermIDToNewID,   \* caches.OldPermIDToNewID
    oldLinkShareIDToNewID,  \* caches.OldLinkShareIDToNewID
    newIDs,         \* ids the provider has handed out for created permissions
    rpPc,           \* position of the current RestorePermissions call
    lsAdded,        \* UpdateLinkShares: its lsAdded argument
    lsAddLeft,      \* UpdateLinkShares: lsAdded entries still to visit
    lsRemoved,      \* UpdateLinkShares: its lsRemoved argument
    permAddLeft,    \* UpdatePermissions: permAdded entries still to visit
    permRemLeft,    \* UpdatePermissions: permRemoved entries still to visit
    alreadyDeleted, \* UpdateLinkShares: alreadyDeleted
    didReset,       \* RestorePermissions: didReset
    elFailed,       \* the local bus of the running function has an error
    apiLog,         \* provider calls of the current RestorePermissions call
    rpErrs,         \* errors the current RestorePermissions call added to the bus
    metaColls,      \* parseMetadataCollections: its colls argument
    pmcPc,          \* parseMetadataCollections: position of the call
    collIdx,        \* parseMetadataCollections: the collection being read
    itemIdx,        \* parseMetadataCollections: items taken from its channel
    cdp,            \* parseMetadataCollections: cdp, category -> DeltaPaths
    found,          \* parseMetadataCollections: found, category -> files seen
    errsFailure,    \* parseMetadataCollections: errs.Failure() != nil
    pmcRet,         \* parseMetadataCollections: what the call returned
    ctxDone         \* the context handed to Items() has been cancelled

collVars == <<kind, added, removed, driveItems, jobs, parallelism>>
pathVars == <<folderPath, prevPath, state, ret>>
runVars == <<itemsCalls, runPc, remLeft, addLeft, cur, sem, wg, semClosed,
             progClosed, streamedItems, stats, taskPc>>
chanVars == <<stream, streamClosed, received, consumerDone>>
busVars == <<failure, recoverable, skipped>>
obsVars == <<statusCalls, itemFetches, metaFetches, dataRequested, finished,
             panicked>>
streamVars == <<collVars, pathVars, runVars, chanVars, busVars, obsVars>>
ctrlVars == <<colls, ctrlPc, next, awaiting, counted, cItems, cPc, cLeft, cBuf,
              cStatus>>
dlVars == <<dlPc, dlCache, dlLog, dlResult, dlCalls, cacheMiss>>
cacheVars == <<metas, parentDirToMeta, level, availableEntities, failFast,
               oldPermIDToNewID, oldLinkShareIDToNewID, newIDs>>
rpVars == <<rpPc, lsAdded, lsAddLeft, lsRemoved, permAddLeft, permRemLeft,
            alreadyDeleted, didReset, elFailed, apiLog, rpErrs>>
restoreVars == <<cacheVars, rpVars>>
pmcVars == <<metaColls, pmcPc, collIdx, itemIdx, cdp, found, errsFailure, pmcRet>>
ctxVars == <<ctxDone>>
vars == <<streamVars, ctrlVars, dlVars, restoreVars, pmcVars, ctxVars>>

\* what the actions of one component leave alone
notStream == <<ctrlVars, dlVars, restoreVars, pmcVars, ctxVars>>
notCtrl == <<streamVars, dlVars, restoreVars, pmcVars, ctxVars>>
notDl == <<streamVars, ctrlVars, restoreVars, pmcVars, ctxVars>>
notRestore == <<streamVars, ctrlVars, dlVars, pmcVars, ctxVars>>
notPmc == <<streamVars, ctrlVars, dlVars, restoreVars, ctxVars>>

\* ---------------------------------------------------------------- helpers
Rec(i, t) == [id |-> i, typ |-> t]

IsLazy(r) == r.typ \in {"lazy", ".data"}

RECURSIVE SeqCount(_, _)
SeqCount(s, r) ==
    IF s = <<>> THEN 0
    ELSE (IF Head(s) = r THEN 1 ELSE 0) + SeqCount(Tail(s), r)

Range(s) == {s[i] : i \in DOMAIN s}

TasksOf(r) == {t \in TaskIds : t[1] = r}

\* tasks that were spawned and have not yet called wg.Done()
Unfinished(r) == {t \in TasksOf(r) : taskPc[t] \notin {"none", "done"}}

\* tasks that hold a semaphore slot: spawned, deferred receive not yet run
Holding(r) ==
    {t \in TasksOf(r) : taskPc[t] \notin {"none", "wgdone", "done"}}

Started == {r \in Runs : runPc[r] # "idle"}

\* ------------------------------------------------------ collection state
\* data.StateOf: the state is an observation of the previous and current
\* paths
StateOf(prev, curr) ==
    IF curr = Nil THEN "Deleted"
    ELSE IF prev = Nil THEN "New"
    ELSE IF curr # prev THEN "Moved"
    ELSE "NotMoved"

\* values every specification starts from for the streaming machinery
InitRuns ==
    /\ ctxDone = FALSE
    /\ itemsCalls = 0
    /\ runPc = [r \in Runs |-> "idle"]
    /\ remLeft = [r \in Runs |-> {}]
    /\ addLeft = [r \in Runs |-> {}]
    /\ cur = [r \in Runs |-> Nil]
    /\ sem = [r \in Runs |-> 0]
    /\ wg = [r \in Runs |-> 0]
    /\ semClosed = [r \in Runs |-> FALSE]
    /\ progClosed = [r \in Runs |-> FALSE]
    /\ streamedItems = [r \in Runs |-> 0]
    /\ stats = [r \in Runs |-> [itemsFound |-> 0, itemsRead |-> 0]]
    /\ taskPc = [t \in TaskIds |-> "none"]
    /\ stream = <<>>
    /\ streamClosed = FALSE
    /\ received = EmptyBag
    /\ consumerDone = FALSE
    /\ failure = FALSE
    /\ recoverable = {}
    /\ skipped = {}
    /\ statusCalls = <<>>
    /\ itemFetches = [i \in ItemIDs |-> 0]
    /\ metaFetches = [i \in ItemIDs |-> 0]
    /\ dataRequested = {}
    /\ finished = FALSE
    /\ panicked = FALSE

\* the controller before ProduceBackupCollections is called
CtrlUnused ==
    /\ colls = <<>>
    /\ ctrlPc = "call"
    /\ next = 1
    /\ awaiting = 0
    /\ counted = [c \in CollIds |-> 0]
    /\ cItems = [c \in CollIds |-> 0]
    /\ cPc = [c \in CollIds |-> "none"]
    /\ cLeft = [c \in CollIds |-> 0]
    /\ cBuf = [c \in CollIds |-> 0]
    /\ cStatus = [c \in CollIds |-> 0]

\* no downloadContent call was made yet
DlUnused ==
    /\ dlPc = "idle"
    /\ dlCache = FALSE
    /\ dlLog = <<>>
    /\ dlResult = "none"
    /\ dlCalls = 0
    /\ cacheMiss = 0

\* no restore is under way
RestoreUnused ==
    /\ metas = <<>>
    /\ parentDirToMeta = {}
    /\ level = 1
    /\ availableEntities = [known |-> FALSE, ids |-> {}]
    /\ failFast = FALSE
    /\ oldPermIDToNewID = <<>>
    /\ oldLinkShareIDToNewID = <<>>
    /\ newIDs = 0
    /\ rpPc = "idle"
    /\ lsAdded = {}
    /\ lsAddLeft = {}
    /\ lsRemoved = {}
    /\ permAddLeft = {}
    /\ permRemLeft = {}
    /\ alreadyDeleted = FALSE
    /\ didReset = FALSE
    /\ elFailed = "none"
    /\ apiLog = <<>>
    /\ rpErrs = {}

\* parseMetadataCollections has not been called
PmcUnused ==
    /\ metaColls = <<>>
    /\ pmcPc = "none"
    /\ collIdx = 1
    /\ itemIdx = 0
    /\ cdp = <<>>
    /\ found = <<>>
    /\ errsFailure = FALSE
    /\ pmcRet = <<>>

\* the components a specification of the streaming pipeline does not run
NotStreamUnused == CtrlUnused /\ DlUnused /\ RestoreUnused /\ PmcUnused

\* the drive items a collection can hold: id -> [file, ver]
DriveItemMaps(vers) ==
    UNION {[d -> [file : BOOLEAN, ver : vers]] : d \in SUBSET ItemIDs}

\* NewCollection (groups), newColl (drive), NewCollection (legacy): a freshly
\* built collection of any of the implementations, about to be streamed
InitStream ==
    /\ kind \in Kinds
    /\ parallelism \in 1..MaxParallelism
    /\ added \in SUBSET ItemIDs
    /\ removed \in SUBSET ItemIDs
    /\ kind \in Groups => Cardinality(added) + Cardinality(removed) <= MaxItems
    /\ kind \notin Groups => added = {} /\ removed = {}
    /\ driveItems \in DriveItemMaps({1})
    /\ kind # "drive" => driveItems = <<>>
    /\ jobs \in SUBSET ItemIDs
    /\ kind # "legacy" => jobs = {}
    /\ folderPath = 1
    /\ prevPath = Nil
    /\ state = StateOf(prevPath, folderPath)
    /\ ret = [op |-> "none", arg |-> Nil, val |-> FALSE]
    /\ InitRuns
    /\ NotStreamUnused

\* ------------------------------------------------------------- Items()
\* prefetchCollection.Items, lazyFetchCollection.Items, drive
\* Collection.Items: every call starts a streamItems goroutine and returns
\* the collection's channel; the legacy sharepoint Items only returns the
\* channel.
ItemsStartsAlways == TRUE

\* "go col.streamItems(ctx, errs)" / "go oc.streamItems(ctx, errs)" in
\* Items(); the legacy Items() has no such statement
ItemsStarts == kind # "legacy"

Items ==
    /\ ~panicked
    /\ itemsCalls < MaxItemsCalls
    /\ itemsCalls' = itemsCalls + 1
    /\ runPc' = IF ItemsStarts
                THEN [runPc EXCEPT ![itemsCalls + 1] = "start"]
                ELSE runPc
    /\ UNCHANGED <<collVars, pathVars, remLeft, addLeft, cur, sem, wg,
                   semClosed, progClosed, streamedItems, stats, taskPc,
                   chanVars, busVars, obsVars>>
    /\ UNCHANGED notStream

\* ------------------------------------------------------- streamItems
\* groups streamItems: declarations and deferred calls are registered; the
\* range loops start over col.removed and col.added
GroupsStart(r) ==
    /\ ~panicked
    /\ kind \in Groups
    /\ runPc[r] = "start"
    /\ remLeft' = [remLeft EXCEPT ![r] = removed]
    /\ addLeft' = [addLeft EXCEPT ![r] = added]
    /\ runPc' = [runPc EXCEPT ![r] = "loopRem"]
    /\ UNCHANGED <<collVars, pathVars, itemsCalls, cur, sem, wg, semClosed,
                   progClosed, streamedItems, stats, taskPc, chanVars,
                   busVars, obsVars>>
    /\ UNCHANGED notStream

\* drive streamItems: path.GetDriveFolderPath may fail, and then the
\* collection is reported as completed at once
DriveStart(r) ==
    /\ ~panicked
    /\ kind = "drive"
    /\ runPc[r] = "start"
    /\ \E ok \in BOOLEAN :
        runPc' = [runPc EXCEPT ![r] = IF ok THEN "loopAdd" ELSE "earlyClose"]
    /\ addLeft' = [addLeft EXCEPT ![r] = DOMAIN driveItems]
    /\ UNCHANGED <<collVars, pathVars, itemsCalls, remLeft, cur, sem, wg,
                   semClosed, progClosed, streamedItems, stats, taskPc,
                   chanVars, busVars, obsVars>>
    /\ UNCHANGED notStream

AcquireUnbounded(r) == TRUE

\* semaphoreCh <- struct{}{} blocks while the channel holds
\* Parallelism.ItemFetch tokens
AcquireGuard(r) == sem[r] < parallelism

\* "delete all removed items": one iteration sends on semaphoreCh (blocking
\* while it is full), adds to the wait group and spawns the goroutine
LoopRemoved(r) ==
    /\ ~panicked
    /\ runPc[r] = "loopRem"
    /\ IF remLeft[r] = {}
       THEN /\ runPc' = [runPc EXCEPT ![r] = "loopAdd"]
            /\ UNCHANGED <<remLeft, sem, wg, taskPc>>
       ELSE /\ AcquireGuard(r)
            /\ \E id \in remLeft[r] :
                /\ remLeft' = [remLeft EXCEPT ![r] = @ \ {id}]
                /\ taskPc' = [taskPc EXCEPT ![<<r, "rem", id>>] = "emit"]
            /\ sem' = [sem EXCEPT ![r] = @ + 1]
            /\ wg' = [wg EXCEPT ![r] = @ + 1]
            /\ UNCHANGED runPc
    /\ UNCHANGED <<collVars, pathVars, itemsCalls, addLeft, cur, semClosed,
                   progClosed, streamedItems, stats, chanVars, busVars,
                   obsVars>>
    /\ UNCHANGED notStream

LoopBreaksInverted == ~failure

\* if el.Failure() != nil { break }
LoopBreaks == failure

\* "add any new items" / drive "for _, item := range oc.driveItems": the
\* failure check at the top of an iteration, then the choice of the next
\* map entry (groups add to the wait group before the semaphore send)
LoopAdded(r) ==
    /\ ~panicked
    /\ runPc[r] = "loopAdd"
    /\ IF addLeft[r] = {} \/ LoopBreaks
       THEN /\ runPc' = [runPc EXCEPT ![r] = "wait"]
            /\ UNCHANGED <<addLeft, cur, wg>>
       ELSE /\ \E id \in addLeft[r] :
                /\ addLeft' = [addLeft EXCEPT ![r] = @ \ {id}]
                /\ cur' = [cur EXCEPT ![r] = id]
            /\ wg' = IF kind \in Groups THEN [wg EXCEPT ![r] = @ + 1] ELSE wg
            /\ runPc' = [runPc EXCEPT ![r] = "acquire"]
    /\ UNCHANGED <<collVars, pathVars, itemsCalls, remLeft, sem, semClosed,
                   progClosed, streamedItems, stats, taskPc, chanVars,
                   busVars, obsVars>>
    /\ UNCHANGED notStream

FirstPcEager == IF kind = "drive" THEN "meta" ELSE "fetch"

\* first step of the goroutine spawned for an added item
FirstPc == IF kind = "prefetch" THEN "fetch"
           ELSE IF kind = "lazy" THEN "emit"
           ELSE "meta"

\* semaphoreCh <- struct{}{} for the chosen item, then go func(...)
Acquire(r) ==
    /\ ~panicked
    /\ runPc[r] = "acquire"
    /\ AcquireGuard(r)
    /\ sem' = [sem EXCEPT ![r] = @ + 1]
    /\ wg' = IF kind = "drive" THEN [wg EXCEPT ![r] = @ + 1] ELSE wg
    /\ taskPc' = [taskPc EXCEPT ![<<r, "add", cur[r]>>] = FirstPc]
    /\ cur' = [cur EXCEPT ![r] = Nil]
    /\ runPc' = [runPc EXCEPT ![r] = "loopAdd"]
    /\ UNCHANGED <<collVars, pathVars, itemsCalls, remLeft, addLeft,
                   semClosed, progClosed, streamedItems, stats, chanVars,
                   busVars, obsVars>>
    /\ UNCHANGED notStream

WaitSkipped(r) == TRUE

WaitGuard(r) == wg[r] = 0

CompletionStartsWithStatus == "status"

\* what completing a run starts with: close(col.stream) in the groups'
\* deferred function, close(oc.data) in reportAsCompleted
CompletionStarts == "closeStream"

\* wg.Wait(): returns once every spawned goroutine called wg.Done(); what
\* runs next is the drive's reportAsCompleted or the groups' deferred calls
Wait(r) ==
    /\ ~panicked
    /\ runPc[r] = "wait"
    /\ WaitGuard(r)
    /\ runPc' = [runPc EXCEPT ![r] =
                    IF kind = "drive" THEN CompletionStarts ELSE "closeSem"]
    /\ UNCHANGED <<collVars, pathVars, itemsCalls, remLeft, addLeft, cur, sem,
                   wg, semClosed, progClosed, streamedItems, stats, taskPc,
                   chanVars, busVars, obsVars>>
    /\ UNCHANGED notStream

\* defer close(semaphoreCh)
CloseSem(r) ==
    /\ ~panicked
    /\ runPc[r] = "closeSem"
    /\ semClosed' = [semClosed EXCEPT ![r] = TRUE]
    /\ runPc' = [runPc EXCEPT ![r] = "closeProg"]
    /\ UNCHANGED <<collVars, pathVars, itemsCalls, remLeft, addLeft, cur, sem,
                   wg, progClosed, streamedItems, stats, taskPc, chanVars,
                   busVars, obsVars>>
    /\ UNCHANGED notStream

\* groups create progressMessage only for a non-empty collection
HasProgress == kind = "drive" \/ added \cup removed # {}

\* defer close(progressMessage)
CloseProg(r) ==
    /\ ~panicked
    /\ runPc[r] = "closeProg"
    /\ progClosed' = [progClosed EXCEPT ![r] = HasProgress]
    /\ runPc' = [runPc EXCEPT ![r] =
                    IF kind = "drive" THEN "done" ELSE CompletionStarts]
    /\ UNCHANGED <<collVars, pathVars, itemsCalls, remLeft, addLeft, cur, sem,
                   wg, semClosed, streamedItems, stats, taskPc, chanVars,
                   busVars, obsVars>>
    /\ UNCHANGED notStream

\* close(col.stream) in the groups' deferred function, close(oc.data) in
\* reportAsCompleted: closing a closed channel panics
CloseStream(r) ==
    /\ ~panicked
    /\ runPc[r] \in {"closeStream", "earlyClose"}
    /\ IF streamClosed
       THEN /\ panicked' = TRUE
            /\ UNCHANGED <<runPc, streamClosed>>
       ELSE /\ streamClosed' = TRUE
            /\ runPc' = [runPc EXCEPT ![r] =
                  IF runPc[r] = "earlyClose" THEN "earlyStatus" ELSE "status"]
            /\ UNCHANGED panicked
    /\ UNCHANGED <<collVars, pathVars, itemsCalls, remLeft, addLeft, cur, sem,
                   wg, semClosed, progClosed, streamedItems, stats, taskPc,
                   stream, received, consumerDone, busVars, statusCalls,
                   itemFetches, metaFetches, dataRequested, finished>>
    /\ UNCHANGED notStream

\* the status handed to the status updater: updateStatus (groups) and
\* reportAsCompleted (drive)
StatusOf(r) ==
    IF kind \in Groups
    THEN [objects |-> Cardinality(added) + Cardinality(removed),
          successes |-> streamedItems[r]]
    ELSE IF runPc[r] = "earlyStatus"
    THEN [objects |-> 0, successes |-> 0]
    ELSE [objects |-> stats[r].itemsFound, successes |-> stats[r].itemsRead]

\* statusUpdater(status)
UpdateStatus(r) ==
    /\ ~panicked
    /\ runPc[r] \in {"status", "earlyStatus"}
    /\ statusCalls' = Append(statusCalls, StatusOf(r))
    /\ runPc' = [runPc EXCEPT ![r] =
                    IF kind = "drive" /\ runPc[r] = "status" THEN "closeSem"
                    ELSE "done"]
    /\ UNCHANGED <<collVars, pathVars, itemsCalls, remLeft, addLeft, cur, sem,
                   wg, semClosed, progClosed, streamedItems, stats, taskPc,
                   chanVars, busVars, itemFetches, metaFetches, dataRequested,
                   finished, panicked>>
    /\ UNCHANGED notStream

\* ------------------------------------------------- per-item goroutines
RunOf(t) == t[1]
IdOf(t) == t[3]

\* the variables a per-item goroutine never touches
TaskFrame == <<collVars, pathVars, itemsCalls, runPc, remLeft, addLeft, cur,
               semClosed, progClosed, received, consumerDone, streamClosed,
               failure, skipped, statusCalls, dataRequested, finished>>

\* the outcomes a call that takes the context can have: a call made with a
\* cancelled context comes back with the context's error
WithContext(outs) == IF ctxDone THEN outs \cap {"err"} ELSE outs

\* outcomes of getAndAugment.getItem followed by the serialization calls
FetchOutcomes == {"ok", "notFound", "err", "serialize"}

PrefetchErrorDropped(id, out) == {}

\* what the prefetch goroutine adds to the fault bus for an outcome of its
\* fetch: every error is wrapped and handed to el.AddRecoverable
PrefetchRecoverable(id, out) ==
    IF out = "ok" THEN {} ELSE {[id |-> id, err |-> out]}

\* prefetch goroutine, from getItem to NewPrefetchedItemWithInfo
PrefetchFetch(t) ==
    /\ ~panicked
    /\ taskPc[t] = "fetch"
    /\ itemFetches' = [itemFetches EXCEPT ![IdOf(t)] = @ + 1]
    /\ \E out \in WithContext(FetchOutcomes) :
        /\ recoverable' = recoverable \cup PrefetchRecoverable(IdOf(t), out)
        /\ taskPc' = [taskPc EXCEPT ![t] =
                        IF out = "ok" THEN "emit" ELSE "release"]
    /\ UNCHANGED <<TaskFrame, sem, wg, streamedItems, stats, stream,
                   metaFetches, panicked>>
    /\ UNCHANGED notStream

\* the record a groups goroutine sends
GroupsRecord(t) ==
    IF t[2] = "rem" THEN Rec(IdOf(t), "deleted")
    ELSE IF kind = "prefetch" THEN Rec(IdOf(t), "prefetched")
    ELSE Rec(IdOf(t), "lazy")

StreamedIncAddedOnly(t) == IF t[2] = "rem" THEN 0 ELSE 1

\* what a groups goroutine adds to streamedItems after its send
StreamedInc(t) == 1

\* col.stream <- record; atomic.AddInt64(&streamedItems, 1);
\* progressMessage <- struct{}{}.  A send on a closed channel panics, a send
\* on the full col.stream blocks; the progress listener always receives.
GroupsEmit(t) ==
    /\ ~panicked
    /\ kind \in Groups
    /\ taskPc[t] = "emit"
    /\ IF streamClosed \/ progClosed[RunOf(t)]
       THEN /\ panicked' = TRUE
            /\ UNCHANGED <<stream, streamedItems, taskPc>>
       ELSE /\ Len(stream) < StreamCap
            /\ stream' = Append(stream, GroupsRecord(t))
            /\ streamedItems' =
                 [streamedItems EXCEPT ![RunOf(t)] = @ + StreamedInc(t)]
            /\ taskPc' = [taskPc EXCEPT ![t] = "release"]
            /\ UNCHANGED panicked
    /\ UNCHANGED <<TaskFrame, sem, wg, stats, recoverable, itemFetches,
                   metaFetches>>
    /\ UNCHANGED notStream

\* outcomes of downloadItemMeta
MetaOutcomes == {"ok", "notFound", "err"}

\* streamDriveItem up to the metadata fetch: the found counter, then
\* downloadItemMeta; deleted items are skipped, other errors are recoverable.
\* When streamDriveItem returns, the goroutine sends on progressMessage.
DriveMeta(t) ==
    /\ ~panicked
    /\ taskPc[t] = "meta"
    /\ LET id == IdOf(t)
           file == driveItems[id].file
       IN /\ stats' = IF file
                      THEN [stats EXCEPT ![RunOf(t)].itemsFound = @ + 1]
                      ELSE stats
          /\ metaFetches' = [metaFetches EXCEPT ![id] = @ + 1]
          /\ \E out \in WithContext(MetaOutcomes) :
              /\ recoverable' =
                   IF out = "err"
                   THEN recoverable \cup {[id |-> id, err |-> "meta"]}
                   ELSE recoverable
              /\ taskPc' = [taskPc EXCEPT ![t] =
                    IF out # "ok" THEN "release"
                    ELSE IF file THEN "emitData" ELSE "emitMeta"]
              /\ panicked' = (out # "ok" /\ progClosed[RunOf(t)])
    /\ UNCHANGED <<TaskFrame, sem, wg, streamedItems, stream, itemFetches>>
    /\ UNCHANGED notStream

\* oc.data <- data.NewLazyItemWithInfo(...): the lazy data record of a file
DriveEmitData(t) ==
    /\ ~panicked
    /\ taskPc[t] = "emitData"
    /\ IF streamClosed
       THEN /\ panicked' = TRUE
            /\ UNCHANGED <<stream, taskPc>>
       ELSE /\ Len(stream) < StreamCap
            /\ stream' = Append(stream, Rec(IdOf(t), ".data"))
            /\ taskPc' = [taskPc EXCEPT ![t] = "emitMeta"]
            /\ UNCHANGED panicked
    /\ UNCHANGED <<TaskFrame, sem, wg, streamedItems, stats, recoverable,
                   itemFetches, metaFetches>>
    /\ UNCHANGED notStream

\* metaFileName: the item id for a file; not set for directories, so that
\* their record is named just ".dirmeta"
MetaFileName(id) == IF driveItems[id].file THEN id ELSE Nil

MetaSuffixAsData(id) == ".data"

\* metaSuffix: metadata.MetaFileSuffix for a file, DirMetaFileSuffix otherwise
MetaSuffix(id) == IF driveItems[id].file THEN ".meta" ELSE ".dirmeta"

\* data.NewPrefetchedItem (which may fail), oc.data <- storeItem and the
\* read counters; then streamDriveItem returns and the goroutine sends on
\* progressMessage
DriveEmitMeta(t) ==
    /\ ~panicked
    /\ taskPc[t] = "emitMeta"
    /\ LET id == IdOf(t)
           file == driveItems[id].file
       IN \/ /\ recoverable' = recoverable \cup {[id |-> id, err |-> "store"]}
             /\ taskPc' = [taskPc EXCEPT ![t] = "release"]
             /\ panicked' = progClosed[RunOf(t)]
             /\ UNCHANGED <<stream, stats>>
          \/ /\ streamClosed
             /\ panicked' = TRUE
             /\ UNCHANGED <<stream, stats, taskPc, recoverable>>
          \/ /\ ~streamClosed
             /\ Len(stream) < StreamCap
             /\ stream' = Append(stream,
                              Rec(MetaFileName(id), MetaSuffix(id)))
             /\ stats' = IF file
                         THEN [stats EXCEPT ![RunOf(t)].itemsRead = @ + 1]
                         ELSE stats
             /\ taskPc' = [taskPc EXCEPT ![t] = "release"]
             /\ panicked' = progClosed[RunOf(t)]
             /\ UNCHANGED recoverable
    /\ UNCHANGED <<TaskFrame, sem, wg, streamedItems, itemFetches,
                   metaFetches>>
    /\ UNCHANGED notStream

\* defer func() { <-semaphoreCh }()
SemReceiveNone(n) == n

\* "<-semaphoreCh": one token leaves the channel
SemReceive(n) == IF n > 0 THEN n - 1 ELSE 0

Release(t) ==
    /\ ~panicked
    /\ taskPc[t] = "release"
    /\ sem' = [sem EXCEPT ![RunOf(t)] = SemReceive(@)]
    /\ taskPc' = [taskPc EXCEPT ![t] = "wgdone"]
    /\ UNCHANGED <<TaskFrame, wg, streamedItems, stats, stream, recoverable,
                   itemFetches, metaFetches, panicked>>
    /\ UNCHANGED notStream

\* defer wg.Done()
Done(t) ==
    /\ ~panicked
    /\ taskPc[t] = "wgdone"
    /\ wg' = [wg EXCEPT ![RunOf(t)] = @ - 1]
    /\ taskPc' = [taskPc EXCEPT ![t] = "done"]
    /\ UNCHANGED <<TaskFrame, sem, streamedItems, stats, stream, recoverable,
                   itemFetches, metaFetches, panicked>>
    /\ UNCHANGED notStream

\* ------------------------------------------------------------ consumer
\* the consumer ranges over the channel Items() returned
Receive ==
    /\ ~panicked
    /\ itemsCalls > 0
    /\ stream # <<>>
    /\ received' = received (+) SetToBag({Head(stream)})
    /\ stream' = Tail(stream)
    /\ UNCHANGED <<collVars, pathVars, runVars, streamClosed, consumerDone,
                   busVars, obsVars>>
    /\ UNCHANGED notStream

\* the range loop ends: the channel is closed and drained
RangeEnds ==
    /\ ~panicked
    /\ itemsCalls > 0
    /\ stream = <<>>
    /\ streamClosed
    /\ ~consumerDone
    /\ consumerDone' = TRUE
    /\ UNCHANGED <<collVars, pathVars, runVars, stream, streamClosed, received,
                   busVars, obsVars>>
    /\ UNCHANGED notStream

\* what groups lazyItemGetter.GetData adds to the fault bus: an item deleted
\* in flight is only labelled skippable
LazyRecoverable(id, out) ==
    IF out \in {"ok", "notFound"} THEN {} ELSE {[id |-> id, err |-> out]}

\* groups lazyItemGetter.GetData, invoked when the consumer reads the item
LazyGetData(id) ==
    /\ ~panicked
    /\ kind = "lazy"
    /\ BagIn(Rec(id, "lazy"), received)
    /\ id \notin dataRequested
    /\ dataRequested' = dataRequested \cup {id}
    /\ itemFetches' = [itemFetches EXCEPT ![id] = @ + 1]
    /\ \E out \in WithContext(FetchOutcomes) :
        recoverable' = recoverable \cup LazyRecoverable(id, out)
    /\ UNCHANGED <<collVars, pathVars, runVars, chanVars, failure, skipped,
                   statusCalls, metaFetches, finished, panicked>>
    /\ UNCHANGED notStream

\* outcomes of getDriveItemContent
ContentOutcomes == {"ok", "notFound", "malware", "err"}

\* drive lazyItemGetter.GetData -> getDriveItemContent: the content download;
\* malware is recorded as a skip, nothing is added to the recoverable list
DriveGetData(id) ==
    /\ ~panicked
    /\ kind = "drive"
    /\ BagIn(Rec(id, ".data"), received)
    /\ id \notin dataRequested
    /\ dataRequested' = dataRequested \cup {id}
    /\ itemFetches' = [itemFetches EXCEPT ![id] = @ + 1]
    /\ \E out \in WithContext(ContentOutcomes) :
        skipped' = IF out = "malware"
                   THEN skipped \cup {[id |-> id, cause |-> "malware"]}
                   ELSE skipped
    /\ UNCHANGED <<collVars, pathVars, runVars, chanVars, failure, recoverable,
                   statusCalls, metaFetches, finished, panicked>>
    /\ UNCHANGED notStream

\* ------------------------------------------------------------ fault bus
\* some component of the run fails the bus: Failure() becomes non-nil
BusFail ==
    /\ ~panicked
    /\ ~failure
    /\ failure' = TRUE
    /\ UNCHANGED <<collVars, pathVars, runVars, chanVars, recoverable, skipped,
                   obsVars>>
    /\ UNCHANGED notStream

\* ------------------------------------------------- legacy sharepoint
\* the populating code sends the item of a job on sc.data
LegacySend(id) ==
    /\ ~panicked
    /\ kind = "legacy"
    /\ id \in jobs
    /\ ~finished
    /\ Rec(id, "item") \notin Range(stream)
    /\ ~BagIn(Rec(id, "item"), received)
    /\ Len(stream) < StreamCap
    /\ stream' = Append(stream, Rec(id, "item"))
    /\ UNCHANGED <<collVars, pathVars, runVars, streamClosed, received,
                   consumerDone, busVars, obsVars>>
    /\ UNCHANGED notStream

\* the statuses finishPopulation hands to sc.statusUpdater: it builds the
\* status and only logs it
FinishStatuses(st) == <<>>

\* Collection.finishPopulation
FinishPopulation ==
    /\ ~panicked
    /\ kind = "legacy"
    /\ ~finished
    /\ finished' = TRUE
    /\ streamClosed' = TRUE
    /\ statusCalls' = statusCalls \o
         FinishStatuses([objects |-> Cardinality(jobs),
                         successes |-> Len(stream) + BagCardinality(received)])
    /\ UNCHANGED <<collVars, pathVars, runVars, stream, received, consumerDone,
                   busVars, itemFetches, metaFetches, dataRequested, panicked>>
    /\ UNCHANGED notStream

\* ------------------------------------------------------- specification
\* everything a streaming run, its goroutines, the consumer and the fault
\* bus can do once Items() was called
StreamSteps ==
    \/ \E r \in Runs :
        \/ GroupsStart(r)
        \/ DriveStart(r)
        \/ LoopRemoved(r)
        \/ LoopAdded(r)
        \/ Acquire(r)
        \/ Wait(r)
        \/ CloseSem(r)
        \/ CloseProg(r)
        \/ CloseStream(r)
        \/ UpdateStatus(r)
    \/ \E t \in TaskIds :
        \/ PrefetchFetch(t)
        \/ GroupsEmit(t)
        \/ DriveMeta(t)
        \/ DriveEmitData(t)
        \/ DriveEmitMeta(t)
        \/ Release(t)
        \/ Done(t)
    \/ Receive
    \/ RangeEnds
    \/ \E id \in ItemIDs :
        \/ LazyGetData(id)
        \/ DriveGetData(id)
        \/ LegacySend(id)
    \/ BusFail
    \/ FinishPopulation

\* the consumer keeps to the contract: Items() is called once
ItemsOnce == itemsCalls = 0 /\ Items

NextStream == ItemsOnce \/ StreamSteps

SpecStream == InitStream /\ [][NextStream]_vars

\* the scheduler runs every goroutine that can take a step, and the
\* consumer keeps receiving from the channel
FairStream == WF_vars(NextStream)

SpecStreamFair == SpecStream /\ FairStream

\* the caller cancels the context it handed to Items()
Cancel ==
    /\ ~ctxDone
    /\ itemsCalls > 0
    /\ ctxDone' = TRUE
    /\ UNCHANGED <<streamVars, ctrlVars, dlVars, restoreVars, pmcVars>>

NextCancel == NextStream \/ Cancel

SpecCancel == InitStream /\ [][NextCancel]_vars

\* a consumer that calls Items() again on the same instance
InitTwice ==
    /\ InitStream
    /\ Cardinality(added) + Cardinality(removed) <= TwiceItems
    /\ Cardinality(DOMAIN driveItems) <= TwiceItems
    /\ Cardinality(jobs) <= TwiceItems

NextTwice == Items \/ StreamSteps

SpecTwice == InitTwice /\ [][NextTwice]_vars

\* ------------------------------------------- building a drive collection
MapPut(m, k, v) == [x \in DOMAIN m \cup {k} |-> IF x = k THEN v ELSE m[x]]

MapDel(m, k) == [x \in DOMAIN m \ {k} |-> m[x]]

\* newColl: the state is computed from the two paths handed in
InitColl ==
    /\ kind = "drive"
    /\ parallelism = 1
    /\ added = {}
    /\ removed = {}
    /\ jobs = {}
    /\ driveItems = <<>>
    /\ folderPath \in {Nil} \cup Paths
    /\ prevPath \in {Nil} \cup Paths
    /\ state = StateOf(prevPath, folderPath)
    /\ ret = [op |-> "none", arg |-> Nil, val |-> FALSE]
    /\ InitRuns
    /\ NotStreamUnused

AddReturnFound(id) == id \in DOMAIN driveItems

\* _, found := oc.driveItems[id]; ...; return !found
AddReturn(id) == id \notin DOMAIN driveItems

\* Collection.Add
Add(id, item) ==
    /\ itemsCalls = 0
    /\ ret' = [op |-> "Add", arg |-> id, val |-> AddReturn(id)]
    /\ driveItems' = MapPut(driveItems, id, item)
    /\ UNCHANGED <<kind, added, removed, jobs, parallelism, folderPath,
                   prevPath, state, runVars, chanVars, busVars, obsVars>>
    /\ UNCHANGED notStream

RemoveKeepsEntry(id) == driveItems

\* if found { delete(oc.driveItems, id) }
RemoveItems(id) ==
    IF id \in DOMAIN driveItems THEN MapDel(driveItems, id) ELSE driveItems

\* Collection.Remove
Remove(id) ==
    /\ itemsCalls = 0
    /\ ret' = [op |-> "Remove", arg |-> id, val |-> id \in DOMAIN driveItems]
    /\ driveItems' = RemoveItems(id)
    /\ UNCHANGED <<kind, added, removed, jobs, parallelism, folderPath,
                   prevPath, state, runVars, chanVars, busVars, obsVars>>
    /\ UNCHANGED notStream

SetFullPathStale(curPath) == StateOf(prevPath, folderPath)

\* oc.state = data.StateOf(oc.prevPath, curPath, oc.counter)
SetFullPathState(curPath) == StateOf(prevPath, curPath)

\* Collection.SetFullPath
SetFullPath(curPath) ==
    /\ itemsCalls = 0
    /\ folderPath' = curPath
    /\ state' = SetFullPathState(curPath)
    /\ ret' = [op |-> "SetFullPath", arg |-> curPath, val |-> FALSE]
    /\ UNCHANGED <<collVars, prevPath, runVars, chanVars, busVars, obsVars>>
    /\ UNCHANGED notStream

NextColl ==
    \/ \E id \in ItemIDs, item \in [file : BOOLEAN, ver : 1..MaxVer] :
        Add(id, item)
    \/ \E id \in ItemIDs : Remove(id)
    \/ \E p \in {Nil} \cup Paths : SetFullPath(p)

SpecColl == InitColl /\ [][NextColl]_vars

\* ------------------------------- building, then streaming, a drive collection
\* what the drive collection, its goroutines, the consumer and the fault bus
\* can do once Items() was called
DriveSteps ==
    \/ \E r \in Runs :
        \/ DriveStart(r)
        \/ LoopAdded(r)
        \/ Acquire(r)
        \/ Wait(r)
        \/ CloseSem(r)
        \/ CloseProg(r)
        \/ CloseStream(r)
        \/ UpdateStatus(r)
    \/ \E t \in TaskIds :
        \/ DriveMeta(t)
        \/ DriveEmitData(t)
        \/ DriveEmitMeta(t)
        \/ Release(t)
        \/ Done(t)
    \/ Receive
    \/ RangeEnds
    \/ \E id \in ItemIDs : DriveGetData(id)
    \/ BusFail

\* a new collection of a live folder
InitBuild ==
    /\ InitColl
    /\ folderPath = 1
    /\ prevPath = Nil

\* the collection is populated with Add and Remove while the drive is
\* enumerated, then handed to the consumer, which calls Items() once
NextBuild ==
    \/ \E id \in ItemIDs, file \in BOOLEAN :
        /\ Cardinality(DOMAIN driveItems \cup {id}) <= BuildItems
        /\ Add(id, [file |-> file, ver |-> 1])
    \/ \E id \in ItemIDs : Remove(id)
    \/ ItemsOnce
    \/ DriveSteps

SpecBuild == InitBuild /\ [][NextBuild]_vars

\* ------------------------------------------------------------ controller
\* the streaming pipeline of a single collection is not run
StreamUnused ==
    /\ kind = "none"
    /\ parallelism = 1
    /\ added = {}
    /\ removed = {}
    /\ driveItems = <<>>
    /\ jobs = {}
    /\ folderPath = Nil
    /\ prevPath = Nil
    /\ state = "none"
    /\ ret = [op |-> "none", arg |-> Nil, val |-> FALSE]
    /\ InitRuns

\* the components a specification of the controller does not run
NotCtrlUnused == StreamUnused /\ DlUnused /\ RestoreUnused /\ PmcUnused

CollStates == {"New", "NotMoved", "Moved", "Deleted"}

\* what a service's ProduceBackupCollections can return: up to MaxColls
\* collections, each in some state and with some number of records to stream
CollLists ==
    UNION {[1..n -> [state : CollStates, recs : 0..MaxRecs]] : n \in 0..MaxColls}

InitCtrl == CtrlUnused /\ NotCtrlUnused

NewCollectionStreams == "streaming"

\* NewCollection / newColl only build the collection: no goroutine runs
\* until Items() is called
NewCollectionPc == "idle"

\* Controller.ProduceBackupCollections up to the range loop: input
\* verification or the service's producer may fail, and then nothing is
\* returned
Produce ==
    /\ ctrlPc = "call"
    /\ \/ /\ ctrlPc' = "failed"
          /\ UNCHANGED <<colls, cPc, cLeft>>
       \/ \E cs \in CollLists :
            /\ colls' = cs
            /\ cPc' = [c \in CollIds |-> IF c \in DOMAIN cs THEN NewCollectionPc
                                       ELSE "none"]
            /\ cLeft' = [c \in CollIds |-> IF c \in DOMAIN cs THEN cs[c].recs ELSE 0]
            /\ ctrlPc' = "loop"
    /\ UNCHANGED <<next, awaiting, counted, cItems, cBuf, cStatus>>
    /\ UNCHANGED notCtrl

\* ctrl.incrementAwaitingMessages()
IncrementAwaiting(n) == n + 1

ShouldAwaitAll(st) == TRUE

\* if c.State() != data.DeletedState
ShouldAwait(st) == st # "Deleted"

\* one iteration of "for _, c := range colls", or the return after the last
CtrlLoop ==
    /\ ctrlPc = "loop"
    /\ IF next > Len(colls)
       THEN /\ ctrlPc' = "returned"
            /\ UNCHANGED <<next, awaiting, counted>>
       ELSE /\ next' = next + 1
            /\ IF ShouldAwait(colls[next].state)
               THEN /\ awaiting' = IncrementAwaiting(awaiting)
                    /\ counted' = [counted EXCEPT ![next] = @ + 1]
               ELSE UNCHANGED <<awaiting, counted>>
            /\ UNCHANGED ctrlPc
    /\ UNCHANGED <<colls, cItems, cPc, cLeft, cBuf, cStatus>>
    /\ UNCHANGED notCtrl

\* the consumer calls Items() on a returned collection: it does so at most
\* once per collection and skips the deleted ones; Items starts the
\* streamItems goroutine
CollItems(c) ==
    /\ ctrlPc = "returned"
    /\ c \in DOMAIN colls
    /\ colls[c].state # "Deleted"
    /\ cItems[c] = 0
    /\ cPc[c] = "idle"
    /\ cItems' = [cItems EXCEPT ![c] = 1]
    /\ cPc' = [cPc EXCEPT ![c] = "streaming"]
    /\ UNCHANGED <<colls, ctrlPc, next, awaiting, counted, cLeft, cBuf, cStatus>>
    /\ UNCHANGED notCtrl

\* the goroutines of streamItems send a record on the collection's channel,
\* blocking while its buffer is full
CollSend(c) ==
    /\ cPc[c] = "streaming"
    /\ cLeft[c] > 0
    /\ cBuf[c] < StreamCap
    /\ cLeft' = [cLeft EXCEPT ![c] = @ - 1]
    /\ cBuf' = [cBuf EXCEPT ![c] = @ + 1]
    /\ UNCHANGED <<colls, ctrlPc, next, awaiting, counted, cItems, cPc, cStatus>>
    /\ UNCHANGED notCtrl

\* the consumer drains the channel Items() returned
CollReceive(c) ==
    /\ cItems[c] > 0
    /\ cBuf[c] > 0
    /\ cBuf' = [cBuf EXCEPT ![c] = @ - 1]
    /\ UNCHANGED <<colls, ctrlPc, next, awaiting, counted, cItems, cPc, cLeft,
                   cStatus>>
    /\ UNCHANGED notCtrl

AfterCloseReturns == "done"

\* the deferred function of streamItems: close(col.stream), then updateStatus
AfterClose == "status"

\* wg.Wait() returned: every record was sent and the channel is closed
CollClose(c) ==
    /\ cPc[c] = "streaming"
    /\ cLeft[c] = 0
    /\ cPc' = [cPc EXCEPT ![c] = AfterClose]
    /\ UNCHANGED <<colls, ctrlPc, next, awaiting, counted, cItems, cLeft, cBuf,
                   cStatus>>
    /\ UNCHANGED notCtrl

\* Controller.UpdateStatus, the status callback handed to every collection:
\* one awaited completion has arrived
CtrlUpdateStatus(n) == n - 1

\* updateStatus: statusUpdater(status), which is ctrl.UpdateStatus
CollStatus(c) ==
    /\ cPc[c] = "status"
    /\ cStatus' = [cStatus EXCEPT ![c] = @ + 1]
    /\ awaiting' = CtrlUpdateStatus(awaiting)
    /\ cPc' = [cPc EXCEPT ![c] = "done"]
    /\ UNCHANGED <<colls, ctrlPc, next, counted, cItems, cLeft, cBuf>>
    /\ UNCHANGED notCtrl

NextCtrl ==
    \/ Produce
    \/ CtrlLoop
    \/ \E c \in CollIds :
        \/ CollItems(c)
        \/ CollSend(c)
        \/ CollReceive(c)
        \/ CollClose(c)
        \/ CollStatus(c)

SpecCtrl == InitCtrl /\ [][NextCtrl]_vars

\* the producer, the goroutines and the consumer are scheduled: while some
\* step of theirs is possible, one is eventually taken. The consumer calls
\* Items() on every collection that is not deleted and keeps draining.
FairCtrl == WF_vars(NextCtrl)

SpecCtrlFair == SpecCtrl /\ FairCtrl

\* ------------------------------------------------------ downloadContent
NotDlUnused == StreamUnused /\ CtrlUnused /\ RestoreUnused /\ PmcUnused

InitDl == DlUnused /\ NotDlUnused

\* a request made by downloadContent and how it ended
Call(c, o) == [call |-> c, out |-> o]

\* outcomes of downloadItem and downloadFile: content, an unauthorized or
\* bad-token error, any other error
DownloadOutcomes == {"ok", "unauth", "err"}

\* a caller (getDriveItemContent) invokes downloadContent for an item, with
\* or without a url cache
DownloadContent ==
    /\ dlPc \in {"idle", "returned"}
    /\ dlCalls < MaxDownloads
    /\ dlCalls' = dlCalls + 1
    /\ dlCache' \in BOOLEAN
    /\ dlLog' = <<>>
    /\ dlResult' = "none"
    /\ dlPc' = "direct"
    /\ UNCHANGED cacheMiss
    /\ UNCHANGED notDl

RetryableAny(out) == out # "ok"

\* graph.IsErrUnauthorizedOrBadToken(err) on the first download's error
Retryable(out) == out = "unauth"

\* content, err := downloadItem(ctx, iaag, item) and the two returns
DlDirect ==
    /\ dlPc = "direct"
    /\ \E out \in DownloadOutcomes :
        /\ dlLog' = Append(dlLog, Call("downloadItem", out))
        /\ IF out = "ok"
           THEN dlPc' = "returned" /\ dlResult' = "content"
           ELSE IF ~Retryable(out)
           THEN dlPc' = "returned" /\ dlResult' = "error"
           ELSE dlPc' = "cache" /\ UNCHANGED dlResult
    /\ UNCHANGED <<dlCache, dlCalls, cacheMiss>>
    /\ UNCHANGED notDl

\* readItemContents up to the download: a nil cache, a failed lookup and an
\* item deleted in the cache are errors
DlCacheLookup ==
    /\ dlPc = "cache"
    /\ IF ~dlCache
       THEN dlPc' = "miss" /\ UNCHANGED dlLog
       ELSE \E out \in {"ok", "err", "deleted"} :
            /\ dlLog' = Append(dlLog, Call("getItemProperties", out))
            /\ dlPc' = IF out = "ok" THEN "cacheDownload" ELSE "miss"
    /\ UNCHANGED <<dlCache, dlResult, dlCalls, cacheMiss>>
    /\ UNCHANGED notDl

\* readItemContents: downloadFile with the cached url; content is returned
\* by downloadContent, any error is a cache miss
DlCacheDownload ==
    /\ dlPc = "cacheDownload"
    /\ \E out \in DownloadOutcomes :
        /\ dlLog' = Append(dlLog, Call("downloadFile", out))
        /\ IF out = "ok"
           THEN dlPc' = "returned" /\ dlResult' = "content"
           ELSE dlPc' = "miss" /\ UNCHANGED dlResult
    /\ UNCHANGED <<dlCache, dlCalls, cacheMiss>>
    /\ UNCHANGED notDl

IncURLCacheMissNever(n) == n

\* counter.Inc(count.URLCacheMiss)
IncURLCacheMiss(n) == n + 1

\* counter.Inc(count.URLCacheMiss); iaag.GetItem; a failure is returned as
\* "retrieving expired item"
DlGetItem ==
    /\ dlPc = "miss"
    /\ cacheMiss' = IncURLCacheMiss(cacheMiss)
    /\ \E out \in {"ok", "err"} :
        /\ dlLog' = Append(dlLog, Call("GetItem", out))
        /\ IF out = "ok"
           THEN dlPc' = "retry" /\ UNCHANGED dlResult
           ELSE dlPc' = "returned" /\ dlResult' = "error"
    /\ UNCHANGED <<dlCache, dlCalls>>
    /\ UNCHANGED notDl

\* content, err = downloadItem(ctx, iaag, cdi): any failure is returned as
\* "content download retry"
DlRetry ==
    /\ dlPc = "retry"
    /\ \E out \in DownloadOutcomes :
        /\ dlLog' = Append(dlLog, Call("downloadItem", out))
        /\ dlResult' = IF out = "ok" THEN "content" ELSE "error"
    /\ dlPc' = "returned"
    /\ UNCHANGED <<dlCache, dlCalls, cacheMiss>>
    /\ UNCHANGED notDl

NextDl ==
    \/ DownloadContent
    \/ DlDirect
    \/ DlCacheLookup
    \/ DlCacheDownload
    \/ DlGetItem
    \/ DlRetry

SpecDl == InitDl /\ [][NextDl]_vars

\* ------------------------------------------------- permission restore
nonRestorablePermission == 0

\* the permissions found in the backup: permission i of the table
PermEntity(i) == <<"A", "A", "B", "B", "G", "B">>[((i - 1) % 6) + 1]

PermType(i) ==
    <<"user", "user", "user", "group", "sitegroup", "user">>[((i - 1) % 6) + 1]

PermRoles(i) ==
    <<{"read"}, {"write"}, {"owner", "write"}, {"owner"}, {"read"}, {}>>[((i - 1) % 6) + 1]

\* the link shares found in the backup: every second one has a password
LinkHasPassword(i) == i % 2 = 0

LinkEntities(i) == IF i % 2 = 0 THEN {"B"} ELSE {"A"}

\* metadata.Metadata: sharing mode, permissions and link shares (by id); an
\* item with inherited sharing carries none
Metadatas ==
    {[mode |-> "inherited", perms |-> {}, links |-> {}]}
    \cup {[mode |-> "custom", perms |-> ps, links |-> ls] :
            ps \in {x \in SUBSET PermIDs : Cardinality(x) <= MaxMetaPerms},
            ls \in SUBSET LinkIDs}

\* metadata.Metadata{}
EmptyMeta == [mode |-> "", perms |-> {}, links |-> {}]

IsCustomAlways(meta) == TRUE

\* "if meta.SharingMode == metadata.SharingModeCustom"
IsCustom(meta) == meta.mode = "custom"

\* computePreviousMetadata: the walk up from the directory at level k
RECURSIVE PreviousMetadata(_)
PreviousMetadata(k) ==
    IF k = 0 THEN [ok |-> TRUE, meta |-> EmptyMeta]
    ELSE IF k \notin parentDirToMeta THEN [ok |-> FALSE, meta |-> EmptyMeta]
    ELSE IF IsCustom(metas[k]) THEN [ok |-> TRUE, meta |-> metas[k]]
    ELSE PreviousMetadata(k - 1)

\* computePreviousLinkShares: the link shares of every ancestor with custom
\* sharing, from the directory at level k up to the drive root
RECURSIVE PreviousLinkShares(_)
PreviousLinkShares(k) ==
    IF k = 0 THEN [ok |-> TRUE, links |-> {}]
    ELSE IF k \notin parentDirToMeta THEN [ok |-> FALSE, links |-> {}]
    ELSE LET up == PreviousLinkShares(k - 1)
         IN IF ~up.ok THEN up
            ELSE [ok |-> TRUE,
                  links |-> up.links \cup
                      (IF metas[k].mode = "custom" THEN metas[k].links ELSE {})]

\* Permission.Equals: the same entity with the same roles
PermEquals(a, b) == PermEntity(a) = PermEntity(b) /\ PermRoles(a) = PermRoles(b)

\* metadata.DiffPermissions: what the after set adds to and removes from the
\* before set
DiffPermissions(before, after) ==
    [added |-> {a \in after : \A b \in before : ~PermEquals(a, b)},
     removed |-> {b \in before : \A a \in after : ~PermEquals(a, b)}]

\* metadata.DiffLinkShares, with LinkShare.Equals: link shares are equal
\* when their WebURL is, and every link share of the backup has its own
DiffLinkShares(before, after) ==
    [added |-> after \ before, removed |-> before \ after]

\* the switch on the entity type in the two filter functions
Available(type, entity) ==
    IF type \in {"user", "group"} THEN entity \in availableEntities.ids
    ELSE TRUE

\* filterUnavailableEntitiesInPermissions: the permissions kept
FilterPermissions(perms) ==
    IF ~availableEntities.known THEN perms
    ELSE {q \in perms : Available(PermType(q), PermEntity(q))}

\* filterUnavailableEntitiesInLinkShare: the link shares kept, those with an
\* available entity
FilterLinkShares(links) ==
    IF ~availableEntities.known THEN links
    ELSE {l \in links : \E en \in LinkEntities(l) : Available("user", en)}

\* oldPermIDToNewID.Store(p.ID, "") for every id of a set
StoreAll(m, ids, v) == [x \in DOMAIN m \cup ids |-> IF x \in ids THEN v ELSE m[x]]

\* the components a specification of the permission restore does not run
NotRestoreUnused == StreamUnused /\ CtrlUnused /\ DlUnused /\ PmcUnused

\* a restore run over one path of the backup: the Metadata of each level,
\* the caches as NewRestoreCaches leaves them and the fault bus
InitRestore ==
    /\ metas \in [Levels -> Metadatas]
    /\ parentDirToMeta = {}
    /\ level = 1
    /\ availableEntities \in
         {[known |-> FALSE, ids |-> {}], [known |-> TRUE, ids |-> {"A"}],
          [known |-> TRUE, ids |-> {"A", "B"}]}
    /\ failFast \in BOOLEAN
    /\ oldPermIDToNewID = <<>>
    /\ oldLinkShareIDToNewID = <<>>
    /\ newIDs = 0
    /\ rpPc = "idle"
    /\ lsAdded = {}
    /\ lsAddLeft = {}
    /\ lsRemoved = {}
    /\ permAddLeft = {}
    /\ permRemLeft = {}
    /\ alreadyDeleted = FALSE
    /\ didReset = FALSE
    /\ elFailed = "none"
    /\ apiLog = <<>>
    /\ rpErrs = {}
    /\ NotRestoreUnused

\* el.AddRecoverable on a local bus: with fail-fast the first recoverable
\* error becomes the failure of the bus
LocalFailure(prev, err) ==
    IF prev # "none" THEN prev ELSE IF failFast THEN err ELSE "none"

\* an error the current call adds to the fault bus
RpErr(what, id) == [what |-> what, id |-> id]

\* a provider call: who made it, for which id, with what body, how it ended
Api(op, by, id, body, out) ==
    [op |-> op, by |-> by, id |-> id, body |-> body, out |-> out]

\* RestorePermissions returns to the caller, which moves down the path
RpReturn ==
    /\ rpPc' = "idle"
    /\ level' = level + 1

\* the caller stores the Metadata of a directory for its descendants (or
\* fails to) and calls RestorePermissions, which returns at once for
\* inherited sharing and otherwise computes the previous link shares, diffs
\* and filters them
RestorePermissions ==
    /\ rpPc = "idle"
    /\ level \in Levels
    /\ \E stored \in BOOLEAN :
        parentDirToMeta' = IF stored THEN parentDirToMeta \cup {level}
                           ELSE parentDirToMeta
    /\ apiLog' = <<>>
    /\ didReset' = FALSE
    /\ alreadyDeleted' = FALSE
    /\ elFailed' = "none"
    /\ permAddLeft' = {}
    /\ permRemLeft' = {}
    /\ LET current == metas[level]
           previous == PreviousLinkShares(level - 1)
           diff == DiffLinkShares(previous.links, current.links)
           kept == FilterLinkShares(diff.added)
       IN IF current.mode = "inherited"
          THEN /\ RpReturn
               /\ lsAdded' = {} /\ lsAddLeft' = {} /\ lsRemoved' = {}
               /\ rpErrs' = {}
               /\ UNCHANGED oldLinkShareIDToNewID
          ELSE IF ~previous.ok
          THEN /\ rpErrs' = {RpErr("previous link shares", 0)}
               /\ rpPc' = "perms"
               /\ lsAdded' = {} /\ lsAddLeft' = {} /\ lsRemoved' = {}
               /\ UNCHANGED <<level, oldLinkShareIDToNewID>>
          ELSE /\ oldLinkShareIDToNewID' =
                    StoreAll(oldLinkShareIDToNewID, diff.added \ kept,
                             nonRestorablePermission)
               /\ lsAdded' = kept
               /\ lsAddLeft' = kept
               /\ lsRemoved' = diff.removed
               /\ rpPc' = "lsAdd"
               /\ rpErrs' = {}
               /\ UNCHANGED level
    /\ UNCHANGED <<metas, availableEntities, failFast, oldPermIDToNewID, newIDs>>
    /\ UNCHANGED notRestore

LinkOutcomes == {"ok", "unresolved", "sharingDisabled", "err"}

RetainOnEveryCall == IF lsRemoved = {} THEN "true" ELSE "false"

\* lsbody.SetRetainInheritedPermissions(ptr.To(len(lsRemoved) == 0)), on
\* the first call only
Retain == IF alreadyDeleted THEN "unset"
          ELSE IF lsRemoved = {} THEN "true" ELSE "false"

\* UpdateLinkShares: one iteration of the loop over lsAdded
UpdateLinkSharesAdd ==
    /\ rpPc = "lsAdd"
    /\ IF lsAddLeft = {} \/ elFailed # "none"
       THEN /\ rpPc' = "lsAfter"
            /\ UNCHANGED <<lsAddLeft, alreadyDeleted, apiLog, rpErrs, elFailed,
                           oldLinkShareIDToNewID, newIDs>>
       ELSE \E ls \in lsAddLeft :
            /\ lsAddLeft' = lsAddLeft \ {ls}
            /\ UNCHANGED rpPc
            /\ IF LinkHasPassword(ls)
               THEN UNCHANGED <<alreadyDeleted, apiLog, rpErrs, elFailed,
                                oldLinkShareIDToNewID, newIDs>>
               ELSE \E out \in LinkOutcomes :
                    /\ alreadyDeleted' = TRUE
                    /\ apiLog' = Append(apiLog,
                          Api("PostItemLinkShareUpdate", "links", ls, Retain, out))
                    /\ newIDs' = IF out = "ok" THEN newIDs + 1 ELSE newIDs
                    /\ oldLinkShareIDToNewID' =
                         IF out = "ok"
                         THEN MapPut(oldLinkShareIDToNewID, ls, newIDs + 1)
                         ELSE IF out = "unresolved"
                         THEN MapPut(oldLinkShareIDToNewID, ls,
                                     nonRestorablePermission)
                         ELSE oldLinkShareIDToNewID
                    /\ rpErrs' = IF out = "err"
                                 THEN rpErrs \cup {RpErr("link share", ls)}
                                 ELSE rpErrs
                    /\ elFailed' = IF out = "err"
                                   THEN LocalFailure(elFailed, out)
                                   ELSE elFailed
    /\ UNCHANGED <<metas, parentDirToMeta, level, availableEntities, failFast,
                   oldPermIDToNewID, lsAdded, lsRemoved, permAddLeft,
                   permRemLeft, didReset>>
    /\ UNCHANGED notRestore

\* UpdateLinkShares after the loop: the return on a failed bus, or the
\* placeholder link that drops the inherited link shares, or the plain
\* return; RestorePermissions records an error returned to it
UpdateLinkSharesAfter ==
    /\ rpPc = "lsAfter"
    /\ IF elFailed # "none"
       THEN /\ didReset' = alreadyDeleted
            /\ rpErrs' = rpErrs \cup {RpErr("updating link shares", 0)}
            /\ rpPc' = "perms"
            /\ UNCHANGED <<alreadyDeleted, apiLog, newIDs>>
       ELSE IF lsRemoved # {} /\ lsAdded = {}
       THEN \E out \in {"ok", "err"} :
            /\ apiLog' = Append(apiLog,
                  Api("PostItemLinkShareUpdate", "links", 0, "false", out))
            /\ IF out = "ok"
               THEN /\ alreadyDeleted' = TRUE
                    /\ newIDs' = newIDs + 1
                    /\ rpPc' = "lsDelete"
                    /\ UNCHANGED <<didReset, rpErrs>>
               ELSE /\ didReset' = alreadyDeleted
                    /\ rpErrs' = rpErrs \cup {RpErr("updating link shares", 0)}
                    /\ rpPc' = "perms"
                    /\ UNCHANGED <<alreadyDeleted, newIDs>>
       ELSE /\ didReset' = alreadyDeleted
            /\ rpPc' = "perms"
            /\ UNCHANGED <<alreadyDeleted, apiLog, newIDs, rpErrs>>
    /\ UNCHANGED <<metas, parentDirToMeta, level, availableEntities, failFast,
                   oldPermIDToNewID, oldLinkShareIDToNewID, lsAdded, lsAddLeft,
                   lsRemoved, permAddLeft, permRemLeft, elFailed>>
    /\ UNCHANGED notRestore

\* UpdateLinkShares: the placeholder link is deleted again
UpdateLinkSharesDelete ==
    /\ rpPc = "lsDelete"
    /\ \E out \in {"ok", "err"} :
        /\ apiLog' = Append(apiLog,
              Api("DeleteItemPermission", "links", newIDs, "", out))
        /\ rpErrs' = IF out = "err"
                     THEN rpErrs \cup {RpErr("updating link shares", 0)}
                     ELSE rpErrs
    /\ didReset' = alreadyDeleted
    /\ rpPc' = "perms"
    /\ UNCHANGED <<cacheVars, lsAdded, lsAddLeft, lsRemoved, permAddLeft,
                   permRemLeft, alreadyDeleted, elFailed>>
    /\ UNCHANGED notRestore

PermRemovedDiffed(reset, diffed) == diffed

\* "if didReset { permRemoved = []metadata.Permission{} ... }": the removal
\* list handed to UpdatePermissions
PermRemoved(reset, diffed) == IF reset THEN {} ELSE diffed

\* RestorePermissions between the link shares and UpdatePermissions:
\* computePreviousMetadata, DiffPermissions, the filter, and the override
\* when the link shares reset the inheritance
RestorePermissionsDiff ==
    /\ rpPc = "perms"
    /\ LET current == metas[level]
           previous == PreviousMetadata(level - 1)
           diff == DiffPermissions(previous.meta.perms, current.perms)
           kept == FilterPermissions(diff.added)
       IN IF ~previous.ok
          THEN /\ rpErrs' = rpErrs \cup {RpErr("previous metadata", 0)}
               /\ RpReturn
               /\ UNCHANGED <<oldPermIDToNewID, permAddLeft, permRemLeft>>
          ELSE /\ oldPermIDToNewID' =
                    StoreAll(oldPermIDToNewID, diff.added \ kept,
                             nonRestorablePermission)
               /\ permAddLeft' = IF didReset THEN current.perms ELSE kept
               /\ permRemLeft' = PermRemoved(didReset, diff.removed)
               /\ rpPc' = "permRemove"
               /\ UNCHANGED <<level, rpErrs>>
    /\ elFailed' = "none"
    /\ UNCHANGED <<metas, parentDirToMeta, availableEntities, failFast,
                   oldLinkShareIDToNewID, newIDs, lsAdded, lsAddLeft, lsRemoved,
                   alreadyDeleted, didReset, apiLog>>
    /\ UNCHANGED notRestore

DeleteOutcomes == {"ok", "sharingDisabled", "err"}

\* what RestorePermissions adds to the fault bus for the error
\* UpdatePermissions returned: nothing when sharing is disabled
UpdatePermissionsErr(err) ==
    IF err \in {"none", "sharingDisabled"} THEN {}
    ELSE {RpErr("updating permissions", 0)}

RemovalsSkipped == TRUE

\* "for _, p := range permRemoved" has visited every entry
RemovalsDone == permRemLeft = {}

NotRestoredNever(pid) == FALSE

\* "if pid == nonRestorablePermission": the permission was not restored on
\* the parent and thus cannot be deleted
NotRestored(pid) == pid = nonRestorablePermission

\* UpdatePermissions: one iteration of the loop over permRemoved; a failed
\* delete ends UpdatePermissions
UpdatePermissionsRemove ==
    /\ rpPc = "permRemove"
    /\ IF RemovalsDone
       THEN /\ rpPc' = "permAdd"
            /\ UNCHANGED <<level, permRemLeft, apiLog, rpErrs, elFailed>>
       ELSE \E q \in permRemLeft :
            /\ permRemLeft' = permRemLeft \ {q}
            /\ IF q \notin DOMAIN oldPermIDToNewID
               THEN /\ rpErrs' = rpErrs \cup {RpErr("no permission matches id", q)}
                    /\ elFailed' = LocalFailure(elFailed, "err")
                    /\ UNCHANGED <<rpPc, level, apiLog>>
               ELSE IF NotRestored(oldPermIDToNewID[q])
               THEN UNCHANGED <<rpPc, level, apiLog, rpErrs, elFailed>>
               ELSE \E out \in DeleteOutcomes :
                    /\ apiLog' = Append(apiLog,
                          Api("DeleteItemPermission", "perms",
                              oldPermIDToNewID[q], "", out))
                    /\ IF out = "ok"
                       THEN UNCHANGED <<rpPc, level, rpErrs>>
                       ELSE /\ rpErrs' = rpErrs \cup UpdatePermissionsErr(out)
                            /\ RpReturn
                    /\ UNCHANGED elFailed
    /\ UNCHANGED <<metas, parentDirToMeta, availableEntities, failFast,
                   oldPermIDToNewID, oldLinkShareIDToNewID, newIDs, lsAdded,
                   lsAddLeft, lsRemoved, permAddLeft, alreadyDeleted, didReset>>
    /\ UNCHANGED notRestore

PermOutcomes == {"ok", "unresolved", "sharingDisabled", "err"}

PostRolesWithOwner(q) == PermRoles(q)

\* the roles sent: every role but "owner"
PostRoles(q) == PermRoles(q) \ {"owner"}

\* UpdatePermissions: one iteration of the loop over permAdded, or the
\* return of el.Failure() to RestorePermissions
UpdatePermissionsAdd ==
    /\ rpPc = "permAdd"
    /\ IF permAddLeft = {} \/ elFailed # "none"
       THEN /\ rpErrs' = rpErrs \cup UpdatePermissionsErr(elFailed)
            /\ RpReturn
            /\ UNCHANGED <<permAddLeft, apiLog, elFailed, oldPermIDToNewID,
                           newIDs>>
       ELSE \E q \in permAddLeft :
            /\ permAddLeft' = permAddLeft \ {q}
            /\ UNCHANGED <<rpPc, level>>
            /\ IF PostRoles(q) = {} \/ PermType(q) = "sitegroup"
               THEN UNCHANGED <<apiLog, rpErrs, elFailed, oldPermIDToNewID,
                                newIDs>>
               ELSE \E out \in PermOutcomes :
                    /\ apiLog' = Append(apiLog,
                          Api("PostItemPermissionUpdate", "perms", q,
                              PostRoles(q), out))
                    /\ newIDs' = IF out = "ok" THEN newIDs + 1 ELSE newIDs
                    /\ oldPermIDToNewID' =
                         IF out = "ok"
                         THEN MapPut(oldPermIDToNewID, q, newIDs + 1)
                         ELSE IF out = "unresolved"
                         THEN MapPut(oldPermIDToNewID, q, nonRestorablePermission)
                         ELSE oldPermIDToNewID
                    /\ rpErrs' = IF out \in {"err", "sharingDisabled"}
                                 THEN rpErrs \cup {RpErr("permission", q)}
                                 ELSE rpErrs
                    /\ elFailed' = IF out \in {"err", "sharingDisabled"}
                                   THEN LocalFailure(elFailed, out)
                                   ELSE elFailed
    /\ UNCHANGED <<metas, parentDirToMeta, availableEntities, failFast,
                   oldLinkShareIDToNewID, lsAdded, lsAddLeft, lsRemoved,
                   permRemLeft, alreadyDeleted, didReset>>
    /\ UNCHANGED notRestore

NextRestore ==
    \/ RestorePermissions
    \/ UpdateLinkSharesAdd
    \/ UpdateLinkSharesAfter
    \/ UpdateLinkSharesDelete
    \/ RestorePermissionsDiff
    \/ UpdatePermissionsRemove
    \/ UpdatePermissionsAdd

SpecRestore == InitRestore /\ [][NextRestore]_vars

\* RestorePermissions at the permissions of an item below MaxWalk
\* directories, with any Metadata for each and any of them in the cache
WalkLevels == 1..(MaxWalk + 1)

InitPrev ==
    /\ metas \in [WalkLevels -> Metadatas]
    /\ parentDirToMeta \in SUBSET (1..MaxWalk)
    /\ level = MaxWalk + 1
    /\ metas[level].mode = "custom"
    /\ availableEntities = [known |-> FALSE, ids |-> {}]
    /\ failFast = FALSE
    /\ oldPermIDToNewID = <<>>
    /\ oldLinkShareIDToNewID = <<>>
    /\ newIDs = 0
    /\ rpPc = "perms"
    /\ lsAdded = {}
    /\ lsAddLeft = {}
    /\ lsRemoved = {}
    /\ permAddLeft = {}
    /\ permRemLeft = {}
    /\ alreadyDeleted = FALSE
    /\ didReset = FALSE
    /\ elFailed = "none"
    /\ apiLog = <<>>
    /\ rpErrs = {}
    /\ NotRestoreUnused

NextPrev ==
    \/ RestorePermissionsDiff
    \/ UpdatePermissionsRemove
    \/ UpdatePermissionsAdd

SpecPrev == InitPrev /\ [][NextPrev]_vars

\* UpdatePermissions called on its own, as its callers outside
\* RestorePermissions do: any permissions to add (kept as the item's
\* permissions in metas) and to remove, and a map that holds new ids (or the
\* not-restorable mark) for some of them
DirectPerms == 1..MaxDirectPerms

InitUpdate ==
    /\ permAddLeft \in SUBSET DirectPerms
    /\ metas = [l \in Levels |->
                  [mode |-> "custom", perms |-> permAddLeft, links |-> {}]]
    /\ parentDirToMeta = {}
    /\ level = 1
    /\ availableEntities = [known |-> FALSE, ids |-> {}]
    /\ failFast \in BOOLEAN
    /\ \E ids \in SUBSET (1..MaxDirectRemoved) :
         oldPermIDToNewID \in [ids -> {nonRestorablePermission, 1}]
    /\ oldLinkShareIDToNewID = <<>>
    /\ newIDs = 1
    /\ rpPc = "permRemove"
    /\ lsAdded = {}
    /\ lsAddLeft = {}
    /\ lsRemoved = {}
    /\ permRemLeft \in SUBSET (1..MaxDirectRemoved)
    /\ alreadyDeleted = FALSE
    /\ didReset = FALSE
    /\ elFailed = "none"
    /\ apiLog = <<>>
    /\ rpErrs = {}
    /\ NotRestoreUnused

NextUpdate ==
    \/ UpdatePermissionsRemove
    \/ UpdatePermissionsAdd

SpecUpdate == InitUpdate /\ [][NextUpdate]_vars

\* UpdateLinkShares called on its own with any link shares to add, with
\* and without a password, and any to remove
DirectLinks == 1..MaxDirectLinks

RemovedLinks == (MaxDirectLinks + 1)..(MaxDirectLinks + MaxRemovedLinks)

InitLinks ==
    /\ lsAdded \in SUBSET DirectLinks
    /\ lsAddLeft = lsAdded
    /\ lsRemoved \in SUBSET RemovedLinks
    /\ metas = [l \in Levels |->
                  [mode |-> "custom", perms |-> {}, links |-> lsAdded]]
    /\ parentDirToMeta = {}
    /\ level = 1
    /\ availableEntities = [known |-> FALSE, ids |-> {}]
    /\ failFast \in BOOLEAN
    /\ oldPermIDToNewID = <<>>
    /\ oldLinkShareIDToNewID = <<>>
    /\ newIDs = 0
    /\ rpPc = "lsAdd"
    /\ permAddLeft = {}
    /\ permRemLeft = {}
    /\ alreadyDeleted = FALSE
    /\ didReset = FALSE
    /\ elFailed = "none"
    /\ apiLog = <<>>
    /\ rpErrs = {}
    /\ NotRestoreUnused

NextLinks ==
    \/ UpdateLinkSharesAdd
    \/ UpdateLinkSharesAfter
    \/ UpdateLinkSharesDelete

SpecLinks == InitLinks /\ [][NextLinks]_vars

\* ------------------------------------------- parseMetadataCollections
\* path.ContactsCategory, path.EmailCategory, path.EventsCategory
Categories == {"contacts", "email", "events"}

\* the container ids the metadata files of a backup speak of
Containers == 1..MaxContainers

\* a delta token or a path as stored in a metadata file: empty or not
Tokens == {"", "v"}

\* graph.PreviousPathFileName, graph.DeltaURLsFileName
MetadataFiles == {"previouspath", "delta"}

\* a metadata item: its UUID and its content, which either decodes into a
\* map from container id to string or does not decode
MetaItems ==
    [uuid : MetadataFiles, decodes : {FALSE}, m : {<<>>}]
    \cup [uuid : MetadataFiles, decodes : {TRUE},
          m : UNION {[ks -> Tokens] : ks \in (SUBSET Containers) \ {{}}}]

\* the sequences over S of length at most n
SeqsUpTo(S, n) == UNION {[1..k -> S] : k \in 0..n}

\* a data.RestoreCollection of metadata: the category of its path and the
\* items its channel delivers
MetaCollections ==
    [category : Categories, items : SeqsUpTo(MetaItems, MaxMetaFiles)]

\* DeltaPath{}
EmptyDeltaPath == [delta |-> "", path |-> ""]

\* "for k, p := range m { cdps.AddPath(k, p) }" with DeltaPaths.AddPath
AddPaths(dps, m) ==
    [k \in DOMAIN dps \cup DOMAIN m |->
        IF k \in DOMAIN m
        THEN [(IF k \in DOMAIN dps THEN dps[k] ELSE EmptyDeltaPath)
                 EXCEPT !.path = m[k]]
        ELSE dps[k]]

\* "for k, d := range m { cdps.AddDelta(k, d) }" with DeltaPaths.AddDelta
AddDeltas(dps, m) ==
    [k \in DOMAIN dps \cup DOMAIN m |->
        IF k \in DOMAIN m
        THEN [(IF k \in DOMAIN dps THEN dps[k] ELSE EmptyDeltaPath)
                 EXCEPT !.delta = m[k]]
        ELSE dps[k]]

\* CatDeltaPaths with an empty DeltaPaths for each category
EmptyCdp == [c \in Categories |-> <<>>]

\* "if len(dp.Path) == 0": the entry is deleted
Incomplete(dp) == dp.path = ""

\* the loop that removes the incomplete entries of every category
Pruned(c) ==
    [cat \in DOMAIN c |->
        [k \in {x \in DOMAIN c[cat] : ~Incomplete(c[cat][x])} |-> c[cat][k]]]

\* what parseMetadataCollections returns: cdp, canUsePreviousBackup, error
PmcReturn(c, can, err) == [cdp |-> c, canUsePreviousBackup |-> can, err |-> err]

\* a call of parseMetadataCollections about to be made with any colls
InitPmc ==
    /\ metaColls \in SeqsUpTo(MetaCollections, MaxMetaColls)
    /\ pmcPc = "call"
    /\ collIdx = 1
    /\ itemIdx = 0
    /\ cdp = <<>>
    /\ found = <<>>
    /\ errsFailure = FALSE
    /\ pmcRet = <<>>
    /\ StreamUnused
    /\ CtrlUnused
    /\ DlUnused
    /\ RestoreUnused

\* parseMetadataCollections up to the loop over colls
ParseMetadataCollections ==
    /\ pmcPc = "call"
    /\ cdp' = EmptyCdp
    /\ found' = [c \in Categories |-> {}]
    /\ errsFailure' = FALSE
    /\ pmcPc' = "loop"
    /\ UNCHANGED <<metaColls, collIdx, itemIdx, pmcRet>>
    /\ UNCHANGED notPmc

\* "case <-ctx.Done()": the context ended while a collection was read
PmcCancelled ==
    /\ pmcPc = "loop"
    /\ collIdx <= Len(metaColls)
    /\ pmcRet' = PmcReturn(<<>>, FALSE, "parsing collection metadata")
    /\ pmcPc' = "returned"
    /\ UNCHANGED <<metaColls, collIdx, itemIdx, cdp, found, errsFailure>>
    /\ UNCHANGED notPmc

\* "case item, ok := <-items": the channel is closed or the producer has
\* failed the bus, and the loop goes to the next collection; or an item is
\* decoded and merged into cdp
PmcReceive ==
    /\ pmcPc = "loop"
    /\ collIdx <= Len(metaColls)
    /\ \E failed \in {errsFailure, TRUE} :
        LET coll == metaColls[collIdx]
            category == coll.category
        IN /\ errsFailure' = failed
           /\ IF itemIdx = Len(coll.items) \/ failed
              THEN /\ collIdx' = collIdx + 1
                   /\ itemIdx' = 0
                   /\ UNCHANGED <<cdp, found, pmcPc, pmcRet>>
              ELSE LET item == coll.items[itemIdx + 1]
                       file == IF item.uuid = "previouspath" THEN "path"
                               ELSE "delta"
                   IN IF ~item.decodes
                      THEN /\ pmcRet' = PmcReturn(<<>>, FALSE,
                                                  "decoding metadata json")
                           /\ pmcPc' = "returned"
                           /\ UNCHANGED <<collIdx, itemIdx, cdp, found>>
                      ELSE IF file \in found[category]
                      THEN /\ pmcRet' = PmcReturn(<<>>, FALSE,
                                                  "multiple versions")
                           /\ pmcPc' = "returned"
                           /\ UNCHANGED <<collIdx, itemIdx, cdp, found>>
                      ELSE /\ cdp' = [cdp EXCEPT ![category] =
                                        IF file = "path"
                                        THEN AddPaths(@, item.m)
                                        ELSE AddDeltas(@, item.m)]
                           /\ found' = [found EXCEPT ![category] = @ \cup {file}]
                           /\ itemIdx' = itemIdx + 1
                           /\ UNCHANGED <<collIdx, pmcPc, pmcRet>>
    /\ UNCHANGED metaColls
    /\ UNCHANGED notPmc

\* after the loop: the empty result when reading failed, or cdp without
\* its incomplete entries
PmcFinish ==
    /\ pmcPc = "loop"
    /\ collIdx > Len(metaColls)
    /\ pmcRet' = IF errsFailure THEN PmcReturn(EmptyCdp, FALSE, "none")
                 ELSE PmcReturn(Pruned(cdp), TRUE, "none")
    /\ pmcPc' = "returned"
    /\ UNCHANGED <<metaColls, collIdx, itemIdx, cdp, found, errsFailure>>
    /\ UNCHANGED notPmc

NextPmc ==
    \/ ParseMetadataCollections
    \/ PmcCancelled
    \/ PmcReceive
    \/ PmcFinish

SpecPmc == InitPmc /\ [][NextPmc]_vars

\* =================================================================== claims
N == Cardinality(added)
M == Cardinality(removed)

\* no item fetch failed and the fault bus carries no failure
NoErrors == ~failure /\ recoverable = {}

\* number of copies of a record that were sent on the output channel
Emitted(rec) == SeqCount(stream, rec) + CopiesIn(rec, received)

AddedRecord(id) == Rec(id, IF kind = "prefetch" THEN "prefetched" ELSE "lazy")

\* C1: a groups collection with N added and M removed ids, no failed fetch
\* and no bus failure: the consumer that drained the channel and saw it
\* closed received exactly N+M records, one per added id and one tombstone
\* per removed id.
C1_DrainedStreamHasNPlusM ==
    (kind \in Groups /\ consumerDone /\ NoErrors) =>
        /\ BagCardinality(received) = N + M
        /\ \A id \in added : CopiesIn(AddedRecord(id), received) = 1
        /\ \A id \in removed : CopiesIn(Rec(id, "deleted"), received) = 1

C1_Witness ==
    /\ kind \in Groups
    /\ consumerDone
    /\ NoErrors
    /\ added # {}
    /\ removed # {}

\* C2 as stated: with no errors the status of a groups collection has
\* objectsAttempted = N+M and successes <= N.
C2_SuccessesAtMostAdded ==
    (kind \in Groups /\ NoErrors) =>
        \A i \in DOMAIN statusCalls :
            /\ statusCalls[i].objects = N + M
            /\ statusCalls[i].successes <= N

\* C2 (amended): with no errors the status of a groups collection has
\* objectsAttempted = N+M and successes = N+M: every record sent is counted,
\* the tombstones of removed ids included.
C2_SuccessesCountTombstones ==
    (kind \in Groups /\ NoErrors) =>
        \A i \in DOMAIN statusCalls :
            /\ statusCalls[i].objects = N + M
            /\ statusCalls[i].successes = N + M

C2_Witness ==
    /\ kind \in Groups
    /\ NoErrors
    /\ statusCalls # <<>>
    /\ added # {}
    /\ removed # {}

\* the population of the collection is over
StreamingOver == IF kind = "legacy" THEN finished ELSE runPc[1] = "done"

\* C3: the status updater is invoked exactly once per collection whose
\* Items() was called, whatever path streaming took and for every
\* implementation: never twice, and once when population is over.
C3_StatusExactlyOnce ==
    /\ Len(statusCalls) <= 1
    /\ (itemsCalls = 1 /\ StreamingOver) => Len(statusCalls) = 1

\* C4: within one streamItems run the output channel, the semaphore and the
\* progress channel are closed only after every spawned goroutine finished,
\* and nothing is sent on a closed channel (no goroutine panics).
C4_CloseAfterTasks ==
    /\ ~panicked
    /\ \A r \in Runs :
        (kind # "legacy" /\ (streamClosed \/ semClosed[r] \/ progClosed[r]))
            => Unfinished(r) = {}

C4_Witness ==
    /\ streamClosed
    /\ kind # "legacy"
    /\ Cardinality({t \in TaskIds : taskPc[t] = "done"}) >= 2

\* C5: at any time at most `parallelism` per-item goroutines of a run have
\* been started and not yet released their semaphore slot.
C5_BoundedParallelism ==
    \A r \in Runs :
        /\ Cardinality(Holding(r)) <= parallelism
        /\ sem[r] <= parallelism

C5_Witness ==
    \E r \in Runs :
        /\ runPc[r] = "acquire"
        /\ Cardinality(Holding(r)) = parallelism

\* C6: a second Items() call does not start a second producer: at most one
\* streamItems goroutine is ever started, the channel is closed at most once
\* (no panic) and no record is sent twice.
C6_SingleProducer ==
    /\ Cardinality(Started) <= 1
    /\ ~panicked
    /\ \A id \in {Nil} \cup ItemIDs,
          t \in {"deleted", "prefetched", "lazy", ".data", ".meta",
                  ".dirmeta"} :
            Emitted(Rec(id, t)) <= 1

\* C7 as stated: for a lazy groups collection and for the file items of a
\* drive collection, no network fetch is made for an item until the consumer
\* invokes that item's GetData.
C7_NoFetchBeforeGetData ==
    \A id \in ItemIDs :
        (/\ id \notin dataRequested
         /\ \/ kind = "lazy"
            \/ kind = "drive" /\ id \in DOMAIN driveItems
                              /\ driveItems[id].file)
            => itemFetches[id] + metaFetches[id] = 0

\* C7 (amended): until the consumer invokes an item's GetData, a lazy groups
\* collection makes no fetch for it, and a drive collection makes no content
\* download for a file item; the drive makes at most one metadata fetch
\* (downloadItemMeta) per item while streaming.
C7_NoContentFetchBeforeGetData ==
    \A id \in ItemIDs :
        /\ (kind \in {"lazy", "drive"} /\ id \notin dataRequested)
                => itemFetches[id] = 0
        /\ kind = "lazy" => metaFetches[id] = 0
        /\ metaFetches[id] <= 1

C7_Witness ==
    /\ kind = "drive"
    /\ consumerDone
    /\ \E id \in ItemIDs :
        /\ BagIn(Rec(id, ".data"), received)
        /\ id \notin dataRequested
        /\ itemFetches[id] = 0
        /\ metaFetches[id] = 1

RecoverableFor(id) == {e \in recoverable : e.id = id}

C9_NotFoundNotRecoverable ==
    \A e \in recoverable : e.err # "notFound"

\* C10: State() is the function of (previousPath, currentPath) of the table
\* Deleted / New / NotMoved / Moved, after construction and after every
\* SetFullPath, and previousPath never changes.
C10_StateOfPaths ==
    /\ [](/\ folderPath = Nil => state = "Deleted"
          /\ (folderPath # Nil /\ prevPath = Nil) => state = "New"
          /\ (folderPath # Nil /\ prevPath # Nil /\ folderPath = prevPath)
                => state = "NotMoved"
          /\ (folderPath # Nil /\ prevPath # Nil /\ folderPath # prevPath)
                => state = "Moved")
    /\ [][prevPath' = prevPath]_vars

C10_Witness ==
    /\ ret.op = "SetFullPath"
    /\ state = "Moved"
    /\ folderPath # prevPath

\* C11: Add is idempotent on the item set. An Add of an id returns true
\* exactly when the id was not yet in the collection and leaves the id in the
\* set; a second Add of the same id right after the first returns false and
\* leaves the set of ids as it was, so the collection holds one entry for it.
C11_AddIdempotent ==
    [][ret'.op = "Add" =>
        /\ ret'.val = (ret'.arg \notin DOMAIN driveItems)
        /\ DOMAIN driveItems' = DOMAIN driveItems \cup {ret'.arg}
        /\ (ret.op = "Add" /\ ret.arg = ret'.arg) =>
              /\ ~ret'.val
              /\ DOMAIN driveItems' = DOMAIN driveItems]_vars

\* the same id was added a second time: the call returned false and the id
\* is in the collection
C11_Witness ==
    /\ ret.op = "Add"
    /\ ~ret.val
    /\ ret.arg \in DOMAIN driveItems

\* C12: Remove of an id the collection does not hold returns false and
\* leaves the item set unchanged; Remove of a held id returns true, removes
\* exactly that id and leaves every other entry as it was.
C12_RemoveFrame ==
    [][ret'.op = "Remove" =>
        IF ret'.arg \in DOMAIN driveItems
        THEN /\ ret'.val
             /\ DOMAIN driveItems' = DOMAIN driveItems \ {ret'.arg}
             /\ \A k \in DOMAIN driveItems' : driveItems'[k] = driveItems[k]
        ELSE /\ ~ret'.val
             /\ driveItems' = driveItems]_vars

\* a held id was removed from a collection that keeps another entry
C12_Witness ==
    /\ ret.op = "Remove"
    /\ ret.val
    /\ ret.arg \notin DOMAIN driveItems
    /\ driveItems # <<>>

\* the last call that populated the collection removed an id it held: the id
\* was added to the collection and then removed from it
AddedThenRemoved == ret.op = "Remove" /\ ret.val

DriveKeys ==
    {Rec(id, t) : id \in {Nil} \cup ItemIDs, t \in {".data", ".meta", ".dirmeta"}}

\* the folder items a drive collection holds
Folders == {id \in DOMAIN driveItems : ~driveItems[id].file}

\* C17 as stated: within the stream of one drive collection no two records
\* share a key, whatever items the collection holds.
C17_KeysDistinct ==
    kind = "drive" => \A rec \in DriveKeys : Emitted(rec) <= 1

\* C17 as amended: within the stream of one drive collection that holds at
\* most one folder item no two records share a key: a file yields the keys
\* id+".data" and id+".meta", the folder the key ".dirmeta".
C17_KeysDistinctOneFolder ==
    (kind = "drive" /\ Cardinality(Folders) <= 1) =>
        \A rec \in DriveKeys : Emitted(rec) <= 1

\* a collection with a file and a folder was streamed and drained: the two
\* records of the file and the one of the folder were all sent
C17_Witness ==
    /\ kind = "drive"
    /\ consumerDone
    /\ Cardinality(Folders) = 1
    /\ BagIn(Rec(Nil, ".dirmeta"), received)
    /\ \E id \in DOMAIN driveItems :
         /\ BagIn(Rec(id, ".data"), received)
         /\ BagIn(Rec(id, ".meta"), received)

RECURSIVE SumOver(_, _)
SumOver(f, S) ==
    IF S = {} THEN 0
    ELSE LET x == CHOOSE y \in S : TRUE IN f[x] + SumOver(f, S \ {x})

\* the returned collections that are not in the Deleted state
Live == {c \in DOMAIN colls : colls[c].state # "Deleted"}

\* C14: once ProduceBackupCollections has returned its collections, the
\* awaiting counter was incremented exactly once for every collection that
\* is not Deleted and never for a Deleted one: it has grown by the number of
\* the collections that are not Deleted.
C14_CountsLiveCollections ==
    ctrlPc = "returned" =>
        /\ \A c \in DOMAIN colls :
              counted[c] = IF colls[c].state = "Deleted" THEN 0 ELSE 1
        /\ awaiting + SumOver(cStatus, CollIds) = Cardinality(Live)

\* the call returned a Deleted and a live collection, nothing streamed yet
C14_Witness ==
    /\ ctrlPc = "returned"
    /\ Live # {}
    /\ Live # DOMAIN colls
    /\ awaiting = Cardinality(Live)

\* C15: with a consumer that calls Items() once on every collection that is
\* not Deleted, never on a Deleted one, and keeps draining, the status
\* callbacks never outnumber the increments (the counter never goes below
\* its starting value), and once the producer returned the counter
\* eventually is back at its starting value with as many callbacks as
\* increments.
C15_CallbacksMeetIncrements ==
    /\ [](SumOver(cStatus, CollIds) <= SumOver(counted, CollIds)
          /\ awaiting >= 0)
    /\ (ctrlPc = "returned") ~>
          (awaiting = 0
           /\ SumOver(cStatus, CollIds) = SumOver(counted, CollIds))

\* two live collections were produced and both have reported their status
C15_Witness ==
    /\ ctrlPc = "returned"
    /\ Cardinality(Live) >= 2
    /\ \A c \in Live : cStatus[c] = 1
    /\ awaiting = 0

\* C16: with a consumer that never streams a Deleted collection, as long as
\* Items() has not been called on a collection the counter was incremented
\* for, the status callback of that collection has not been invoked and the
\* counter is above its starting value; so if Items() is never called on
\* it, the counter never returns to its start.
C16_UnstreamedStalls ==
    \A c \in DOMAIN colls :
        (counted[c] > 0 /\ cItems[c] = 0) =>
            /\ cStatus[c] = 0
            /\ awaiting > 0

\* one collection has completed while Items() was not called on another one
\* that was counted
C16_Witness ==
    \E c, d \in DOMAIN colls :
        /\ counted[c] > 0
        /\ cItems[c] = 0
        /\ cStatus[d] = 1

\* positions of the requests of one kind in the current call's log
CallsOf(names) == {i \in DOMAIN dlLog : dlLog[i].call \in names}

\* C18: the requests of one downloadContent call follow a fixed sequence.
\* The first is the direct download; anything follows it only if it failed
\* as unauthorized; the cache lookup and the download from the cached url
\* come next; GetItem is made only after the cache path failed, at most
\* once, and is followed only, if it succeeded, by one last download. There
\* are at most three downloads and five requests, and the call returns an
\* error when GetItem or the last download failed.
C18_FixedSequence ==
    /\ Cardinality(CallsOf({"downloadItem", "downloadFile"})) <= 3
    /\ Cardinality(CallsOf({"GetItem"})) <= 1
    /\ Len(dlLog) <= 5
    /\ dlLog # <<>> =>
         /\ dlLog[1].call = "downloadItem"
         /\ Len(dlLog) > 1 => dlLog[1].out = "unauth"
    /\ \A i \in DOMAIN dlLog :
         /\ dlLog[i].call = "getItemProperties" => i = 2
         /\ dlLog[i].call = "downloadFile" =>
              /\ i = 3
              /\ dlLog[2] = Call("getItemProperties", "ok")
         /\ dlLog[i].call = "GetItem" =>
              /\ i > 1
              /\ dlLog[i - 1].call # "GetItem"
              /\ i > 2 => dlLog[i - 1].out # "ok"
              /\ i = 2 => ~dlCache
         /\ (i > 1 /\ dlLog[i].call = "downloadItem") =>
              /\ dlLog[i - 1] = Call("GetItem", "ok")
              /\ i = Len(dlLog)
    /\ (dlPc = "returned" /\ Len(dlLog) > 1
         /\ dlLog[Len(dlLog)].call \in {"GetItem", "downloadItem"}
         /\ dlLog[Len(dlLog)].out # "ok") => dlResult = "error"
    /\ dlPc = "returned" =>
         (dlResult = "content" <=> dlLog[Len(dlLog)].out = "ok")

\* a call went through all five requests and returned content from the last
\* download
C18_Witness ==
    /\ dlPc = "returned"
    /\ Len(dlLog) = 5
    /\ dlResult = "content"

\* the provider calls UpdatePermissions made in the current call
PermCalls(op) ==
    {i \in DOMAIN apiLog : apiLog[i].by = "perms" /\ apiLog[i].op = op}

\* C19: within one UpdatePermissions call every DeleteItemPermission comes
\* before every PostItemPermissionUpdate, and no permission is posted while
\* a removal of that call is still to be attempted.
C19_DeletesBeforePosts ==
    /\ \A i \in PermCalls("PostItemPermissionUpdate"),
          j \in PermCalls("DeleteItemPermission") : j < i
    /\ PermCalls("PostItemPermissionUpdate") # {} => permRemLeft = {}

\* a call deleted two permissions and then posted one
C19_Witness ==
    /\ rpPc = "idle"
    /\ Cardinality(PermCalls("DeleteItemPermission")) >= 2
    /\ PermCalls("PostItemPermissionUpdate") # {}

\* the last RestorePermissions call was for an item with custom sharing and
\* the one permission b, A with role write, whose nearest ancestor with
\* custom sharing has the one permission a, A with role read, restored
\* under the id the map holds for a; its link shares are those it inherits
ReadToWrite(a, b) ==
    /\ rpPc = "idle"
    /\ level > 1
    /\ PermEntity(a) = "A" /\ PermRoles(a) = {"read"}
    /\ PermEntity(b) = "A" /\ PermRoles(b) = {"write"}
    /\ metas[level - 1].mode = "custom"
    /\ metas[level - 1].perms = {b}
    /\ PreviousMetadata(level - 2).ok
    /\ PreviousMetadata(level - 2).meta.perms = {a}
    /\ PreviousLinkShares(level - 2).ok =>
         PreviousLinkShares(level - 2).links = metas[level - 1].links
    /\ a \in DOMAIN oldPermIDToNewID
    /\ oldPermIDToNewID[a] # nonRestorablePermission

\* C20: in that case RestorePermissions issues exactly one
\* DeleteItemPermission, for A's restored permission, and then exactly one
\* PostItemPermissionUpdate, for A with role write.
C20_OneDeleteOnePost ==
    \A a, b \in PermIDs :
        ReadToWrite(a, b) =>
            /\ Len(apiLog) = 2
            /\ apiLog[1].op = "DeleteItemPermission"
            /\ apiLog[1].id = oldPermIDToNewID[a]
            /\ apiLog[2].op = "PostItemPermissionUpdate"
            /\ apiLog[2].id = b
            /\ apiLog[2].body = {"write"}

\* the calls of the last RestorePermissions that ended with a plain error
FailedCalls == {i \in 1..Len(apiLog) : apiLog[i].out = "err"}

\* C21: when a DeleteItemPermission, PostItemPermissionUpdate or
\* PostItemLinkShareUpdate call of a RestorePermissions call returned an
\* error (and the bus is not fail-fast), then at the return the error is on
\* the fault bus as recoverable and no removal or addition of the item was
\* left unattempted.
C21_FailureDoesNotAbort ==
    (rpPc = "idle" /\ ~failFast /\ FailedCalls # {})
        => /\ rpErrs # {}
           /\ lsAddLeft = {}
           /\ permRemLeft = {}
           /\ permAddLeft = {}

\* C22: with the available-entities caches populated, no
\* PostItemPermissionUpdate is issued for a permission whose user or group
\* is not in the target tenant, whether or not the link shares reset the
\* inheritance.
C22_NoPostForAbsentEntity ==
    availableEntities.known =>
        \A i \in 1..Len(apiLog) :
            apiLog[i].op = "PostItemPermissionUpdate"
                => Available(PermType(apiLog[i].id), PermEntity(apiLog[i].id))

\* the permissions the call at the current level has to remove
ToRemove ==
    DiffPermissions(PreviousMetadata(level - 1).meta.perms,
                    metas[level].perms).removed

\* a permission ID the shared map records as not restorable
RecordedNotRestorable(q) ==
    q \in DOMAIN oldPermIDToNewID /\ oldPermIDToNewID[q] = nonRestorablePermission

\* C23: with one OldPermIDToNewID map shared down the path, a removal that
\* finds its permission ID recorded as not restorable (filtered for an
\* unavailable entity, or rejected with users-cannot-be-resolved) issues no
\* DeleteItemPermission and records no error; DeleteItemPermission is never
\* called with the not-restorable mark as the permission to delete.
C23_NotRestorableNeverDeleted ==
    /\ [](\A i \in 1..Len(apiLog) :
            (apiLog[i].op = "DeleteItemPermission" /\ apiLog[i].by = "perms")
                => apiLog[i].id # nonRestorablePermission)
    /\ [][\A q \in permRemLeft \ permRemLeft' :
            (rpPc = "permRemove" /\ RecordedNotRestorable(q))
                => apiLog' = apiLog /\ rpErrs' = rpErrs /\ elFailed' = elFailed]_vars

\* a descendant has skipped the removal of a permission its parent recorded
\* as not restorable
C23_Witness ==
    /\ level = 2
    /\ rpPc = "permAdd"
    /\ ~didReset
    /\ \E q \in ToRemove : RecordedNotRestorable(q)
    /\ rpErrs = {}

\* the PostItemPermissionUpdate calls made so far
Posts == {i \in 1..Len(apiLog) : apiLog[i].op = "PostItemPermissionUpdate"}

\* C24: every PostItemPermissionUpdate carries the roles of its permission
\* without "owner", and that list is not empty; an iteration over a
\* permission whose roles are all "owner", or that has none, makes no call
\* and records no error.
C24_NoOwnerNoEmptyRoles ==
    /\ [](\A i \in Posts :
            /\ apiLog[i].body # {}
            /\ "owner" \notin apiLog[i].body
            /\ apiLog[i].body = PermRoles(apiLog[i].id) \ {"owner"})
    /\ [][\A q \in permAddLeft \ permAddLeft' :
            (rpPc = "permAdd" /\ PermRoles(q) \subseteq {"owner"})
                => apiLog' = apiLog /\ rpErrs' = rpErrs /\ elFailed' = elFailed]_vars

\* UpdatePermissions has gone over an owner-only permission, one without
\* roles and one with owner and write, and posted only the last, as write
C24_Witness ==
    /\ rpPc = "idle"
    /\ permAddLeft = {}
    /\ \E q \in metas[1].perms : PermRoles(q) = {"owner"}
    /\ \E q \in metas[1].perms : PermRoles(q) = {}
    /\ \E q \in metas[1].perms : PermRoles(q) = {"owner", "write"}
    /\ Cardinality(Posts) = 1
    /\ \A i \in Posts : /\ PermRoles(apiLog[i].id) = {"owner", "write"}
                        /\ apiLog[i].body = {"write"}
                        /\ apiLog[i].out = "ok"
    /\ rpErrs = {}

\* the ancestors at which a walk up from level k can end before the drive
\* root: those without an entry in the cache and those with custom sharing
Stops(k) == {j \in 1..k : j \notin parentDirToMeta \/ metas[j].mode = "custom"}

Nearest(S) == CHOOSE j \in S : \A i \in S : i <= j

\* C25: computePreviousMetadata from the directory at level k returns the
\* Metadata of the nearest ancestor with custom sharing, the empty Metadata
\* and no error when the drive root comes first, and an error when an
\* ancestor reached before either has no entry in the cache.
C25_NearestCustomAncestor ==
    \A k \in 0..MaxWalk :
        LET r == PreviousMetadata(k)
        IN IF Stops(k) = {} THEN r.ok /\ r.meta = EmptyMeta
           ELSE IF Nearest(Stops(k)) \in parentDirToMeta
           THEN r.ok /\ r.meta = metas[Nearest(Stops(k))]
           ELSE ~r.ok

\* RestorePermissions has diffed an item against its parent with custom
\* sharing although the grandparent has custom sharing of its own
C25_Witness ==
    /\ level = MaxWalk + 1
    /\ rpPc = "permRemove"
    /\ parentDirToMeta = 1..MaxWalk
    /\ \A j \in 1..MaxWalk : metas[j].mode = "custom"
    /\ metas[level - 1].perms = {1}
    /\ metas[1].perms = {2}
    /\ metas[level].perms = {2}
    /\ permRemLeft = {1}
    /\ permAddLeft = {2}

\* no metadata file reached the call: no collection, or only empty ones
NoMetadataSupplied == \A i \in 1..Len(metaColls) : metaColls[i].items = <<>>

\* C26: when no metadata collection or no metadata file is supplied,
\* parseMetadataCollections returns canUsePreviousBackup = false together
\* with empty delta/path maps.
C26_MissingMetadataIsExplicit ==
    (pmcPc = "returned" /\ NoMetadataSupplied /\ pmcRet.err = "none")
        => /\ ~pmcRet.canUsePreviousBackup
           /\ pmcRet.cdp = EmptyCdp

\* C27: after a successful return every container entry left in the result
\* has a non-empty path and a non-empty delta token.
C27_EntriesHavePathAndDelta ==
    (pmcPc = "returned" /\ pmcRet.err = "none" /\ pmcRet.canUsePreviousBackup)
        => \A cat \in Categories : \A k \in DOMAIN pmcRet.cdp[cat] :
              /\ pmcRet.cdp[cat][k].path # ""
              /\ pmcRet.cdp[cat][k].delta # ""

\* C28: once the context is cancelled, no goroutine is started for an added
\* item: an added item without a task at that moment is never fetched or
\* emitted.
C28_NoTaskStartAfterCancel ==
    [][ctxDone =>
        \A t \in TaskIds :
            (t[2] = "add" /\ taskPc[t] = "none") => taskPc'[t] = "none"]_vars

\* what a legacy collection consists of besides the count of Items() calls
\* the consumer made
LegacyState == <<collVars, pathVars, remLeft, addLeft, cur, sem, wg, semClosed,
                 progClosed, streamedItems, stats, taskPc, runPc, chanVars,
                 busVars, obsVars>>

C30_RunsTerminate ==
    \A r \in Runs :
        (runPc[r] # "idle" /\ parallelism >= 1)
            ~> (runPc[r] = "done" /\ streamClosed /\ Len(statusCalls) > 0)

\* a run has ended although it sent more records than the channel holds
\* and a fetch had failed
C30_Witness ==
    /\ runPc[1] = "done"
    /\ streamClosed
    /\ Len(statusCalls) > 0
    /\ BagCardinality(received) + Len(stream) > StreamCap
    /\ recoverable # {}

\* C31 as stated: in a groups streamItems, once the fault bus reports a
\* failure no goroutine is started for an added id any more.
C31_NoAddedTaskAfterFailure ==
    [][(kind \in Groups /\ failure) =>
        \A t \in TaskIds :
            (t[2] = "add" /\ taskPc[t] = "none") => taskPc'[t] = "none"]_vars

\* C31: in a groups streamItems every removed id is emitted as a tombstone
\* whatever the state of the fault bus; once the bus reports a failure the
\* loop over the added ids takes no further id, and the only goroutine that
\* may still start is the one of the id the loop had taken before the
\* failure and is holding while it waits for a semaphore slot; every goroutine that
\* was started completes, the channel is closed and the status is reported
\* once.
C31_TombstonesAndBreak ==
    /\ []((kind \in Groups /\ runPc[1] = "done") =>
            /\ \A id \in removed : Emitted(Rec(id, "deleted")) = 1
            /\ \A t \in TasksOf(1) : taskPc[t] \in {"none", "done"}
            /\ \A id \in removed : taskPc[<<1, "rem", id>>] = "done"
            /\ streamClosed
            /\ Len(statusCalls) = 1)
    /\ [][(kind \in Groups /\ failure) =>
            \A r \in Runs :
                /\ runPc[r] # "start" => addLeft'[r] = addLeft[r]
                /\ \A id \in ItemIDs :
                    (taskPc[<<r, "add", id>>] = "none"
                        /\ taskPc'[<<r, "add", id>>] # "none")
                      => (runPc[r] = "acquire" /\ cur[r] = id)]_vars
    /\ \A t \in TaskIds :
         (kind \in Groups /\ taskPc[t] # "none") ~> (taskPc[t] = "done")
    /\ (kind \in Groups /\ runPc[1] # "idle")
         ~> (runPc[1] = "done" /\ streamClosed /\ Len(statusCalls) = 1)

\* a run has ended on a failed bus: the loop over the added ids was left
\* with ids unvisited, the tombstone of every removed id was sent
C31_Witness ==
    /\ kind \in Groups
    /\ failure
    /\ runPc[1] = "done"
    /\ removed # {}
    /\ addLeft[1] # {}
    /\ \A id \in removed : Emitted(Rec(id, "deleted")) = 1
    /\ \A id \in addLeft[1] : Emitted(AddedRecord(id)) = 0
    /\ streamClosed
    /\ Len(statusCalls) = 1

\* the counter moves only together with a GetItem request of the running
\* call, and then by one
CounterFollowsGetItem ==
    cacheMiss' # cacheMiss =>
        /\ cacheMiss' = cacheMiss + 1
        /\ dlLog' # <<>>
        /\ dlLog'[Len(dlLog')].call = "GetItem"
        /\ Len(dlLog') = Len(dlLog) + 1

\* C32: when the first direct download of downloadContent fails with an
\* error that is not unauthorized/bad-token, the call returns that error at
\* once: no cache lookup, no GetItem and no second download are made, and
\* the URL-cache-miss counter stays as it was.
C32_OtherErrorReturnsAtOnce ==
    /\ []((dlLog # <<>> /\ dlLog[1] = Call("downloadItem", "err")) =>
            /\ Len(dlLog) = 1
            /\ dlPc = "returned"
            /\ dlResult = "error")
    /\ [][/\ CounterFollowsGetItem
          /\ (dlPc = "direct" /\ dlLog' = <<Call("downloadItem", "err")>>)
               => cacheMiss' = cacheMiss]_vars

\* a call made with a url cache, after an earlier call had missed the cache,
\* returned the error of its first download
C32_Witness ==
    /\ dlPc = "returned"
    /\ dlCache
    /\ dlLog = <<Call("downloadItem", "err")>>
    /\ dlResult = "error"
    /\ cacheMiss > 0

\* the ways the url cache path of downloadContent can fail
CacheMissLogs ==
    {<<Call("downloadItem", "unauth")>>,
     <<Call("downloadItem", "unauth"), Call("getItemProperties", "err")>>,
     <<Call("downloadItem", "unauth"), Call("getItemProperties", "deleted")>>,
     <<Call("downloadItem", "unauth"), Call("getItemProperties", "ok"),
       Call("downloadFile", "unauth")>>,
     <<Call("downloadItem", "unauth"), Call("getItemProperties", "ok"),
       Call("downloadFile", "err")>>}

\* the log of a call that found its content through the url cache
CacheHitLog ==
    <<Call("downloadItem", "unauth"), Call("getItemProperties", "ok"),
      Call("downloadFile", "ok")>>

\* the running call got as far as a successful download from the cached url
CacheHit == Len(dlLog) >= 3 /\ SubSeq(dlLog, 1, 3) = CacheHitLog

\* C33: in downloadContent an item the url cache reports as deleted, a nil
\* url cache, a failed cache lookup and a failed download from the cached
\* url are all cache misses: each increments the URL-cache-miss counter
\* once and leads to one GetItem; a download from the cached url that
\* succeeds returns content, with no GetItem and no increment.
C33_CacheMisses ==
    /\ [](/\ Cardinality(CallsOf({"GetItem"})) <= 1
          /\ (dlPc = "miss" =>
                /\ dlLog \in CacheMissLogs
                /\ (Len(dlLog) = 1 <=> ~dlCache))
          /\ (dlPc = "returned" /\ Len(dlLog) > 1 /\ ~CacheHit) =>
                \E l \in CacheMissLogs :
                    /\ Len(dlLog) > Len(l)
                    /\ SubSeq(dlLog, 1, Len(l)) = l
                    /\ dlLog[Len(l) + 1].call = "GetItem"
          /\ CacheHit =>
                /\ dlLog = CacheHitLog
                /\ dlPc = "returned"
                /\ dlResult = "content")
    /\ [][/\ (dlPc = "miss" =>
                /\ cacheMiss' = cacheMiss + 1
                /\ Len(dlLog') = Len(dlLog) + 1
                /\ dlLog'[Len(dlLog')].call = "GetItem")
          /\ (dlPc # "miss" => cacheMiss' = cacheMiss)
          /\ (dlLog' = CacheHitLog => dlPc' = "returned")]_vars

\* after every earlier call had missed the cache and counted one miss, a
\* call returned the content it downloaded from the cached url
C33_Witness ==
    /\ dlPc = "returned"
    /\ dlLog = CacheHitLog
    /\ dlResult = "content"
    /\ cacheMiss = MaxDownloads - 1

\* the item the running (or last) RestorePermissions call is about
RpItem == IF rpPc = "idle" THEN level - 1 ELSE level

\* C34: in RestorePermissions the link shares are updated before the
\* permissions, and when UpdateLinkShares reports that the inheritance was
\* reset, UpdatePermissions is called with no removals and with all of the
\* item's current permissions as additions, so that it issues no
\* DeleteItemPermission for the item.
C34_ResetRestoresAll ==
    /\ [](/\ \A i, j \in DOMAIN apiLog :
               (i < j /\ apiLog[i].by = "perms") => apiLog[j].by = "perms"
          /\ didReset =>
               /\ permRemLeft = {}
               /\ \A i \in DOMAIN apiLog :
                    apiLog[i].by = "perms"
                        => /\ apiLog[i].op = "PostItemPermissionUpdate"
                           /\ apiLog[i].id \in metas[RpItem].perms)
    /\ [][/\ (rpPc \in {"lsAdd", "lsAfter", "lsDelete"}
                => \A i \in DOMAIN apiLog' : apiLog'[i].by = "links")
          /\ (rpPc = "perms" /\ rpPc' = "permRemove" /\ didReset)
                => /\ permRemLeft' = {}
                   /\ permAddLeft' = metas[level].perms]_vars

\* after a link share was created and reset the inheritance, UpdatePermissions
\* posted a permission of the item although the diff against the parent
\* asked for a removal
C34_Witness ==
    /\ didReset
    /\ rpPc = "permAdd"
    /\ level > 1
    /\ DiffPermissions(PreviousMetadata(level - 1).meta.perms,
                       metas[level].perms).removed # {}
    /\ \E i \in DOMAIN apiLog : apiLog[i].by = "links"
    /\ \E i \in DOMAIN apiLog :
         /\ apiLog[i].by = "perms"
         /\ apiLog[i].id \notin
              DiffPermissions(PreviousMetadata(level - 1).meta.perms,
                              metas[level].perms).added

\* C35: an error while reading or decoding a metadata item of the previous
\* backup makes parseMetadataCollections return empty maps for the three
\* categories, canUsePreviousBackup = false and no error: it never returns
\* the error of an item, which DataCollections would hand on and stop the
\* backup with.
C35_ItemErrorsNotFatal ==
    pmcPc = "returned" =>
        /\ pmcRet.err # "decoding metadata json"
        /\ (errsFailure /\ pmcRet.err # "parsing collection metadata")
             => pmcRet = PmcReturn(EmptyCdp, FALSE, "none")

\* positions of the PostItemLinkShareUpdate calls of the running
\* UpdateLinkShares invocation
LinkPosts == {i \in DOMAIN apiLog : apiLog[i].op = "PostItemLinkShareUpdate"}

\* UpdateLinkShares has returned to RestorePermissions
LinksReturned == rpPc = "perms"

\* UpdateLinkShares returned an error, which RestorePermissions put on the
\* fault bus
LinksError == RpErr("updating link shares", 0) \in rpErrs

\* C36: among the PostItemLinkShareUpdate calls of one UpdateLinkShares
\* invocation the first one, and no other, sets
\* retainInheritedPermissions, to true exactly when lsRemoved is empty; no
\* later call for an added link share sets it, and a link share with a
\* password causes no call.
C36_RetainOnFirstCallOnly ==
    \A i \in LinkPosts :
        /\ (apiLog[i].body # "unset") <=> (\A j \in LinkPosts : i <= j)
        /\ (apiLog[i].body # "unset") =>
              (apiLog[i].body = "true" <=> lsRemoved = {})
        /\ apiLog[i].id # 0 =>
              /\ apiLog[i].id \in lsAdded
              /\ ~LinkHasPassword(apiLog[i].id)

\* two link shares were created while one with a password was passed over
\* and an inherited link share was to be removed
C36_Witness ==
    /\ LinksReturned
    /\ lsRemoved # {}
    /\ \E ls \in lsAdded : LinkHasPassword(ls)
    /\ Cardinality(LinkPosts) = 2
    /\ \E i \in LinkPosts : apiLog[i].body = "false"
    /\ \E i \in LinkPosts : apiLog[i].body = "unset"

\* C37: whenever lsRemoved is non-empty and UpdateLinkShares returns
\* without error, a PostItemLinkShareUpdate call with
\* retainInheritedPermissions = false was issued, whatever lsAdded holds,
\* link shares with a password included; with an empty lsAdded the calls
\* are one placeholder link creation and then one DeleteItemPermission of
\* the new link.
C37_RemovedDropsInherited ==
    (LinksReturned /\ lsRemoved # {} /\ ~LinksError) =>
        /\ \E i \in LinkPosts : apiLog[i].body = "false"
        /\ lsAdded = {} =>
             /\ Len(apiLog) = 2
             /\ apiLog[1].op = "PostItemLinkShareUpdate"
             /\ apiLog[1].id = 0
             /\ apiLog[1].out = "ok"
             /\ apiLog[2].op = "DeleteItemPermission"
             /\ apiLog[2].id = newIDs

\* C38: UpdateLinkShares returns true only if a PostItemLinkShareUpdate
\* call with retainInheritedPermissions = false was issued and succeeded in
\* that invocation; it returns false when no link share was removed and
\* when the first create call failed.
C38_ResetOnlyWhenDropped ==
    LinksReturned =>
        /\ didReset =>
             \E i \in LinkPosts :
                 apiLog[i].body = "false" /\ apiLog[i].out = "ok"
        /\ lsRemoved = {} => ~didReset
        /\ (\E i \in LinkPosts :
                /\ \A j \in LinkPosts : i <= j
                /\ apiLog[i].out # "ok") => ~didReset

\* the last provider call, when the step made one
LastCall == apiLog'[Len(apiLog')]

\* C39: starting from an empty OldPermIDToNewID map, over any sequence of
\* RestorePermissions calls, UpdatePermissions calls DeleteItemPermission
\* only with a permission ID the map holds, and the map holds no permission
\* ID but the ones successful PostItemPermissionUpdate calls returned; a
\* removed permission whose old ID has no map entry gives a recoverable
\* error and no delete call.
C39_DeletesOnlyRestoredIDs ==
    [][/\ \A q \in DOMAIN oldPermIDToNewID' :
            (/\ q \in DOMAIN oldPermIDToNewID
                  => oldPermIDToNewID'[q] # oldPermIDToNewID[q]
             /\ oldPermIDToNewID'[q] # nonRestorablePermission)
              => /\ Len(apiLog') = Len(apiLog) + 1
                 /\ LastCall = Api("PostItemPermissionUpdate", "perms", q,
                                   PostRoles(q), "ok")
                 /\ oldPermIDToNewID'[q] = newIDs'
                 /\ newIDs' = newIDs + 1
       /\ (/\ Len(apiLog') = Len(apiLog) + 1
           /\ LastCall.op = "DeleteItemPermission"
           /\ LastCall.by = "perms")
              => \E q \in permRemLeft \ permRemLeft' :
                    /\ q \in DOMAIN oldPermIDToNewID
                    /\ LastCall.id = oldPermIDToNewID[q]
                    /\ LastCall.id \in 1..newIDs
       /\ \A q \in permRemLeft \ permRemLeft' :
            (rpPc = "permRemove" /\ q \notin DOMAIN oldPermIDToNewID)
              => /\ apiLog' = apiLog
                 /\ RpErr("no permission matches id", q) \in rpErrs'
                 /\ rpPc' = "permRemove"]_vars

\* a descendant deleted the permission its parent had created and found no
\* map entry for another one, whose creation had failed on the parent
C39_Witness ==
    /\ level = 2
    /\ rpPc = "permAdd"
    /\ \E i \in PermCalls("DeleteItemPermission") :
         /\ apiLog[i].out = "ok"
         /\ \E q \in ToRemove : /\ q \in DOMAIN oldPermIDToNewID
                                /\ oldPermIDToNewID[q] = apiLog[i].id
    /\ \E q \in ToRemove :
         /\ q \notin DOMAIN oldPermIDToNewID
         /\ RpErr("no permission matches id", q) \in rpErrs

\* C40: in every streaming implementation the output channel is closed
\* before the status callback is invoked: the callback is only ever invoked
\* on a closed channel, so that a consumer told that a collection completed
\* never finds the channel of that collection open.
C40_ClosedBeforeStatus ==
    /\ [](Len(statusCalls) > 0 => streamClosed)
    /\ [][Len(statusCalls') > Len(statusCalls) => streamClosed]_vars

\* the status of a run was reported while the consumer had not yet taken
\* every record from the closed channel
C40_Witness ==
    /\ kind \in {"prefetch", "lazy", "drive"}
    /\ Len(statusCalls) = 1
    /\ streamClosed
    /\ stream # <<>>
    /\ ~consumerDone

====
